---- MODULE Spec2Model ----
(***************************************************************************)
(* Device-side AST expression evaluator (cudf/ast/detail/                  *)
(* expression_evaluator.cuh): one thread evaluating one expression plan    *)
(* for one row triple, one operator of the plan per step.                  *)
(*                                                                         *)
(* Values of every element type are modelled by their integer              *)
(* representation (bool: false = 0, true = 1), since intermediates are     *)
(* byte copies of the typed value.  A possibly_null_value_t is the record  *)
(* [has_value, value]; with has_nulls = false has_value is always TRUE.    *)
(***************************************************************************)
EXTENDS Integers, Sequences, FiniteSets, TLC

(***************************************************************************)
(* Bounds of the model.                                                    *)
(***************************************************************************)
NumRows == 2
NumSlots == 2

Rows == 0 .. (NumRows - 1)
Slots == 0 .. (NumSlots - 1)

\* Bit patterns an uninitialised 8-byte slot or scalar may hold.
GarbageValues == {77, 99}

(***************************************************************************)
(* possibly_null_value_t<T, has_nulls>                                     *)
(***************************************************************************)
Null == [has_value |-> FALSE, value |-> 0]
Some(v) == [has_value |-> TRUE, value |-> v]

(***************************************************************************)
(* Operator set: ast_operator, ast_operator_arity and operator_functor     *)
(* live in cudf/ast/detail/operators.hpp.                                  *)
(***************************************************************************)
UnaryOperators == {"IDENTITY", "NOT"}
BinaryOperators == {"ADD", "SUB", "MUL", "EQUAL"}

\* A slip: an operator code of no known arity counts as unary.
ast_operator_arity_else_unary(op) ==
  IF op \in BinaryOperators THEN 2 ELSE 1

ast_operator_arity(op) ==
  IF op \in UnaryOperators THEN 1
  ELSE IF op \in BinaryOperators THEN 2
  ELSE 0

Bool(b) == IF b THEN 1 ELSE 0

unary_operator_functor(op, x) ==
  CASE op = "IDENTITY" -> x
    [] op = "NOT" -> Bool(x = 0)

binary_operator_functor(op, x, y) ==
  CASE op = "ADD" -> x + y
    [] op = "SUB" -> x - y
    [] op = "MUL" -> x * y
    [] op = "EQUAL" -> Bool(x = y)

(***************************************************************************)
(* Element types and the compile-time traits the dispatch is gated by:     *)
(* column_device_view::has_element_accessor, is_rep_layout_compatible,     *)
(* is_valid_unary_op / is_valid_binary_op (is the functor invocable) and   *)
(* the functor's result type.  INT32 stands for the fixed-width numerics,  *)
(* STRING for string_view (an accessor, but wider than a slot), LIST for   *)
(* list_view (no accessor).                                                *)
(***************************************************************************)
has_element_accessor(T) == T \in {"INT32", "BOOL", "STRING"}

is_rep_layout_compatible(T) == T \in {"INT32", "BOOL"}

is_valid_unary_op(op, T) ==
  \/ op = "IDENTITY"
  \/ op = "NOT" /\ T \in {"INT32", "BOOL"}

is_valid_binary_op(op, T, U) ==
  \/ op \in {"ADD", "SUB", "MUL"} /\ T \in {"INT32", "BOOL"} /\ U \in {"INT32", "BOOL"}
  \/ op = "EQUAL" /\ T = U /\ T \in {"INT32", "BOOL", "STRING"}

result_type(op, T) == IF op \in {"EQUAL", "NOT"} THEN "BOOL" ELSE T

\* cudf_assert(false && message): the failed device-side assertion aborts the
\* thread, which executes nothing after it.
cudf_assert(message) == <<message>>

(***************************************************************************)
(* device_data_reference and the expression plan (expression_device_view). *)
(* Indices are 0-based as in the code; Seq0 reads a TLA+ sequence at a     *)
(* 0-based position.                                                       *)
(***************************************************************************)
Seq0(s, i) == s[i + 1]

Ref(rt, idx, src) ==
  [reference_type |-> rt, data_type |-> "INT32", data_index |-> idx, table_source |-> src]

TypedRef(rt, ty, idx, src) ==
  [reference_type |-> rt, data_type |-> ty, data_index |-> idx, table_source |-> src]

\* The data-reference table shared by the plans of the catalogue.
data_references ==
  << Ref("COLUMN", 0, "LEFT"),        \* 0: a = left.column(0)
     Ref("COLUMN", 0, "RIGHT"),       \* 1: b = right.column(0)
     Ref("LITERAL", 0, "LEFT"),       \* 2: literal 2
     Ref("LITERAL", 1, "LEFT"),       \* 3: literal 0
     Ref("INTERMEDIATE", 0, "LEFT"),  \* 4: t0
     Ref("INTERMEDIATE", 1, "LEFT"),  \* 5: t1
     Ref("COLUMN", 0, "OUTPUT") >>    \* 6: out

literals == << [value |-> 2, is_valid |-> TRUE], [value |-> 0, is_valid |-> TRUE] >>

Plan(ops, src) ==
  [operators |-> ops, operator_source_indices |-> src,
   data_references |-> data_references, literals |-> literals]

PlanA == Plan(<<"ADD">>, <<0, 0, 6>>)                     \* out = a + a
PlanB == Plan(<<"MUL">>, <<0, 2, 6>>)                     \* out = a * 2
PlanC == Plan(<<"EQUAL">>, <<0, 1, 6>>)                   \* out = (a == b)
PlanE == Plan(<<"SUB">>, <<0, 1, 6>>)                     \* out = L.x - R.y
PlanF == Plan(<<"ADD", "MUL", "SUB">>,
              <<0, 1, 4, 4, 0, 5, 5, 1, 6>>)              \* t0 = a+b; t1 = t0*a; out = t1-b
PlanU == Plan(<<"IDENTITY">>, <<0, 6>>)                   \* out = IDENTITY(a)
PlanUR == Plan(<<"IDENTITY">>, <<1, 6>>)                  \* out = IDENTITY(b)
PlanReuse == Plan(<<"IDENTITY", "ADD", "NOT">>,
                  <<0, 4, 4, 1, 4, 4, 6>>)                \* t0 = a; t0 = t0+b; out = !t0
PlanZero == Plan(<<"ADD">>, <<0, 3, 6>>)                  \* out = a + 0
\* Plans the planner never produces.
PlanDirty == Plan(<<"ADD">>, <<4, 0, 6>>)                 \* out = t0 + a, t0 never written
PlanTwoOut == Plan(<<"IDENTITY", "IDENTITY">>, <<0, 6, 0, 6>>)

Plans == {PlanA, PlanB, PlanC, PlanE, PlanF, PlanU, PlanUR, PlanReuse, PlanZero,
          PlanDirty, PlanTwoOut}

(***************************************************************************)
(* Plans with a programmer error, which planner-level validation rejects,  *)
(* and plans with a null literal: s is a string column, l a list column,   *)
(* o an input that names the OUTPUT table.                                 *)
(***************************************************************************)
edge_references ==
  << TypedRef("COLUMN", "INT32", 0, "LEFT"),         \* 0: a
     TypedRef("COLUMN", "STRING", 0, "LEFT"),        \* 1: s
     TypedRef("COLUMN", "LIST", 0, "RIGHT"),         \* 2: l
     TypedRef("COLUMN", "INT32", 0, "OUTPUT"),       \* 3: o
     TypedRef("LITERAL", "INT32", 0, "LEFT"),        \* 4: the null literal
     TypedRef("LITERAL", "INT32", 1, "RIGHT"),       \* 5: literal 2
     TypedRef("INTERMEDIATE", "INT32", 0, "LEFT"),   \* 6: t0
     TypedRef("INTERMEDIATE", "STRING", 1, "LEFT"),  \* 7: t1
     TypedRef("COLUMN", "INT32", 0, "OUTPUT") >>     \* 8: out

edge_literals == << [value |-> 5, is_valid |-> FALSE], [value |-> 2, is_valid |-> TRUE] >>

EdgePlan(ops, src) ==
  [operators |-> ops, operator_source_indices |-> src,
   data_references |-> edge_references, literals |-> edge_literals]

PlanNullLiteral == EdgePlan(<<"ADD">>, <<0, 4, 8>>)            \* out = a + NULL
PlanLiteral == EdgePlan(<<"IDENTITY">>, <<5, 8>>)              \* out = IDENTITY(2)
PlanBadUnary == EdgePlan(<<"IDENTITY", "NOT", "IDENTITY">>,
                         <<0, 6, 1, 6, 6, 8>>)                 \* t0 = a; t0 = !s; out = t0
PlanBadBinary == EdgePlan(<<"ADD">>, <<1, 1, 8>>)              \* out = s + s
PlanStringEqual == EdgePlan(<<"EQUAL">>, <<1, 1, 8>>)          \* out = (s == s)
PlanOutputSource == EdgePlan(<<"ADD">>, <<0, 3, 8>>)           \* out = a + o
PlanOutputSourceUnary == EdgePlan(<<"IDENTITY">>, <<3, 8>>)    \* out = IDENTITY(o)
PlanWideIntermediate == EdgePlan(<<"IDENTITY", "IDENTITY", "ADD">>,
                                 <<0, 6, 1, 7, 0, 0, 8>>)      \* t0 = a; t1 = s; out = a + a
PlanNoAccessor == EdgePlan(<<"IDENTITY">>, <<2, 8>>)           \* out = IDENTITY(l)
PlanNoAccessorBinary == EdgePlan(<<"IDENTITY", "EQUAL">>,
                                 <<0, 6, 2, 0, 8>>)            \* t0 = a; out = (l == a)

PlanMixedTypes == EdgePlan(<<"ADD">>, <<0, 1, 8>>)             \* out = a + s

EdgePlans == {PlanNullLiteral, PlanLiteral, PlanBadUnary, PlanBadBinary, PlanStringEqual,
              PlanOutputSource, PlanOutputSourceUnary, PlanWideIntermediate,
              PlanNoAccessor, PlanNoAccessorBinary, PlanMixedTypes}

(***************************************************************************)
(* Plans the evaluator accepts although no planner produces them: u is a   *)
(* reference whose reference_type is none of the three kinds, c a LITERAL  *)
(* reference used as an output, and NOP an operator code of arity 0.       *)
(***************************************************************************)
unchecked_references ==
  << Ref("COLUMN", 0, "LEFT"),        \* 0: a
     Ref("COLUMN", 0, "RIGHT"),       \* 1: b
     Ref("LITERAL", 0, "LEFT"),       \* 2: c, literal 2
     Ref("INTERMEDIATE", 0, "LEFT"),  \* 3: t0
     Ref("INTERMEDIATE", 1, "LEFT"),  \* 4: t1
     Ref("UNKNOWN", 1, "LEFT"),       \* 5: u
     Ref("COLUMN", 0, "OUTPUT") >>    \* 6: out

UncheckedPlan(ops, src) ==
  [operators |-> ops, operator_source_indices |-> src,
   data_references |-> unchecked_references, literals |-> literals]

PlanLiteralOutput == UncheckedPlan(<<"ADD", "IDENTITY">>,
                                   <<0, 1, 2, 3, 6>>)           \* c = a + b; out = t0
PlanUnknownKind == UncheckedPlan(<<"ADD", "IDENTITY">>,
                                 <<0, 1, 4, 5, 6>>)             \* t1 = a + b; out = u
PlanTwoWrites == UncheckedPlan(<<"IDENTITY", "ADD", "SUB">>,
                               <<0, 6, 0, 1, 3, 3, 0, 6>>)      \* out = a; t0 = a + b; out = t0 - a
PlanNoWrite == UncheckedPlan(<<"MUL">>, <<0, 1, 3>>)            \* t0 = a * b
PlanNullary == UncheckedPlan(<<"IDENTITY", "NOP", "IDENTITY">>,
                             <<0, 3, 3, 6>>)                    \* t0 = a; NOP; out = t0
PlanChain == UncheckedPlan(<<"ADD", "MUL", "SUB">>,
                           <<0, 1, 3, 3, 0, 4, 4, 1, 6>>)       \* t0 = a+b; t1 = t0*a; out = t1-b

UncheckedPlans == {PlanLiteralOutput, PlanUnknownKind, PlanTwoWrites, PlanNoWrite,
                   PlanNullary, PlanChain}

NumOperators(plan) == Len(plan.operators)

\* Position of operator k's first operand index: sum over j < k of (arity_j + 1).
RECURSIVE SourceStart(_, _)
SourceStart(plan, k) ==
  IF k = 0 THEN 0
  ELSE SourceStart(plan, k - 1) + ast_operator_arity(Seq0(plan.operators, k - 1)) + 1

InputRefs(plan, k) ==
  [j \in 1 .. ast_operator_arity(Seq0(plan.operators, k)) |->
     Seq0(plan.data_references,
          Seq0(plan.operator_source_indices, SourceStart(plan, k) + j - 1))]

OutputRef(plan, k) ==
  Seq0(plan.data_references,
       Seq0(plan.operator_source_indices,
            SourceStart(plan, k) + ast_operator_arity(Seq0(plan.operators, k))))

\* Section 3 of the specification: invariants of a well-formed plan.
WrittenBeforeRead(plan) ==
  \A k \in 0 .. (NumOperators(plan) - 1) :
    \A j \in DOMAIN InputRefs(plan, k) :
      InputRefs(plan, k)[j].reference_type = "INTERMEDIATE" =>
        \E w \in 0 .. (k - 1) :
          /\ OutputRef(plan, w).reference_type = "INTERMEDIATE"
          /\ OutputRef(plan, w).data_index = InputRefs(plan, k)[j].data_index

WellFormed(plan) ==
  /\ NumOperators(plan) >= 1
  /\ \A k \in 0 .. (NumOperators(plan) - 1) :
       /\ ast_operator_arity(Seq0(plan.operators, k)) \in {1, 2}
       /\ OutputRef(plan, k).reference_type \in {"COLUMN", "INTERMEDIATE"}
       /\ (OutputRef(plan, k).reference_type = "COLUMN") <=> (k = NumOperators(plan) - 1)
       /\ \A j \in DOMAIN InputRefs(plan, k) :
            InputRefs(plan, k)[j].table_source \in {"LEFT", "RIGHT"}
  /\ WrittenBeforeRead(plan)

(***************************************************************************)
(* Tables: one column each.  Element data is fixed and distinct per table  *)
(* and row; the null masks are inputs.                                     *)
(***************************************************************************)
LeftData == [r \in Rows |-> r + 1]
RightData == [r \in Rows |-> r + 2]

Masks == [Rows -> BOOLEAN]

Table(data, mask) == [c \in {0} |-> [data |-> data, valid |-> mask]]

(***************************************************************************)
(* Result containers (sinks).  set_value_calls is a history field: the     *)
(* row index and value of every set_value call made on the container.      *)
(***************************************************************************)
\* A slip: the value is stored only for index 0.
value_set_value_at_zero(output_object, index, result) ==
  IF index = 0 THEN [output_object EXCEPT !._obj = result] ELSE output_object

\* A slip: the container keeps the first value it is given.
value_set_value_once(output_object, index, result) ==
  IF output_object.set_value_calls = <<>>
  THEN [output_object EXCEPT !._obj = result]
  ELSE output_object

\* value_expression_result::set_value: the index is ignored.
value_set_value(output_object, index, result) ==
  [output_object EXCEPT !._obj = result]

\* A slip: the value is stored whatever its type.
value_expression_result_set_value_any_type(output_object, Element, index, result) ==
  [output_object |-> value_set_value(output_object, index, result), asserts |-> <<>>]

\* value_expression_result<T>::set_value<Element>: the container of element
\* type T stores the result if Element is T and asserts otherwise.
value_expression_result_set_value(output_object, Element, index, result) ==
  IF Element = output_object.T
  THEN [output_object |-> value_set_value(output_object, index, result), asserts |-> <<>>]
  ELSE [output_object |-> output_object,
        asserts |-> cudf_assert("Output type does not match container type.")]

\* value_expression_result::is_valid
value_is_valid(output_object, has_nulls) ==
  IF has_nulls THEN output_object._obj.has_value ELSE TRUE

\* value_expression_result::value
value_value(output_object, has_nulls) == output_object._obj.value

\* A slip: a present value is stored without marking the row valid.
column_set_value_keeps_bit(output_object, index, result, has_nulls) ==
  IF has_nulls
  THEN IF result.has_value
       THEN [output_object EXCEPT !.data[index] = result.value]
       ELSE [output_object EXCEPT !.valid[index] = FALSE]
  ELSE [output_object EXCEPT !.data[index] = result.value]

\* A slip: without nulls the row is still marked valid.
column_set_value_marks_valid(output_object, index, result, has_nulls) ==
  IF result.has_value
  THEN [output_object EXCEPT !.data[index] = result.value, !.valid[index] = TRUE]
  ELSE [output_object EXCEPT !.valid[index] = FALSE]

\* mutable_column_expression_result::set_value
column_set_value(output_object, index, result, has_nulls) ==
  IF has_nulls
  THEN IF result.has_value
       THEN [output_object EXCEPT !.data[index] = result.value, !.valid[index] = TRUE]
       ELSE [output_object EXCEPT !.valid[index] = FALSE]
  ELSE [output_object EXCEPT !.data[index] = result.value]

set_value(output_object, index, result, has_nulls) ==
  LET written == IF output_object.kind = "column"
                 THEN column_set_value(output_object, index, result, has_nulls)
                 ELSE value_set_value(output_object, index, result)
  IN [written EXCEPT !.set_value_calls =
        Append(@, [index |-> index, result |-> result])]

(***************************************************************************)
(* expression_evaluator::resolve_input.  The result is the set of values   *)
(* the call may return, each with the memory it read: a single value       *)
(* except where the code dereferences an empty optional.                   *)
(***************************************************************************)
\* thrust::optional<size_type>::operator*: an empty optional yields whatever
\* its storage holds, a row of the table or an index past its end.
Deref(opt) == IF opt.has_value THEN {opt.value} ELSE 0 .. NumRows

ColumnIsValid(table, c, row) ==
  IF row \in Rows THEN {table[c].valid[row]} ELSE BOOLEAN

ColumnElement(table, c, row) ==
  IF row \in Rows THEN {table[c].data[row]} ELSE GarbageValues

Read(source, index, row, kind) ==
  [source |-> source, index |-> index, row |-> row, kind |-> kind]

\* A slip: the right table is selected only for RIGHT.
select_table_right_else_left(ev, ref) ==
  IF ref.table_source = "RIGHT"
  THEN [source |-> "right", table |-> ev.right]
  ELSE [source |-> "left", table |-> ev.left]

\* table = (table_source == LEFT) ? left : right
select_table(ev, ref) ==
  IF ref.table_source = "LEFT"
  THEN [source |-> "left", table |-> ev.left]
  ELSE [source |-> "right", table |-> ev.right]

\* A slip: the left row index is used whatever the table.
select_row_left(ref, left_row_index, right_row_index) ==
  {left_row_index}

\* row_index = (table_source == LEFT) ? left_row_index : *right_row_index
select_row(ref, left_row_index, right_row_index) ==
  IF ref.table_source = "LEFT" THEN {left_row_index} ELSE Deref(right_row_index)

\* A slip: the element is returned without consulting the null mask.
resolve_column_unchecked(ev, ref, left_row_index, right_row_index) ==
  LET data_index == ref.data_index
      source == select_table(ev, ref).source
      table == select_table(ev, ref).table
  IN UNION {
       {[result |-> Some(e),
         reads |-> {Read(source, data_index, row, "element")}] :
          e \in ColumnElement(table, data_index, row)} :
       row \in select_row(ref, left_row_index, right_row_index)}

resolve_column(ev, ref, left_row_index, right_row_index) ==
  LET data_index == ref.data_index
      source == select_table(ev, ref).source
      table == select_table(ev, ref).table
      row_indices == select_row(ref, left_row_index, right_row_index)
      element(row) ==
        {[result |-> Some(e),
          reads |-> {Read(source, data_index, row, "element")}] :
           e \in ColumnElement(table, data_index, row)}
  IN UNION {
       IF ev.has_nulls
       THEN UNION {
              IF ok
              THEN {[x EXCEPT !.reads = @ \cup {Read(source, data_index, row, "is_valid")}] :
                      x \in element(row)}
              ELSE {[result |-> Null,
                     reads |-> {Read(source, data_index, row, "is_valid")}]} :
              ok \in ColumnIsValid(table, data_index, row)}
       ELSE element(row) :
       row \in row_indices}

\* A slip: every reference that is not a COLUMN is read as a literal.
resolve_input_literal_else(ev, ref, left_row_index, right_row_index) ==
  IF ref.reference_type = "COLUMN"
  THEN resolve_column(ev, ref, left_row_index, right_row_index)
  ELSE {[result |-> Some(Seq0(ev.plan.literals, ref.data_index).value),
         reads |-> {Read("literals", ref.data_index, 0, "element")}]}

resolve_input(ev, ref, left_row_index, right_row_index) ==
  IF ref.reference_type = "COLUMN"
  THEN resolve_column(ev, ref, left_row_index, right_row_index)
  ELSE IF ref.reference_type = "LITERAL"
  THEN {[result |-> Some(Seq0(ev.plan.literals, ref.data_index).value),
         reads |-> {Read("literals", ref.data_index, 0, "element")}]}
  ELSE {[result |-> ev.thread_intermediate_storage[ref.data_index],
         reads |-> {Read("intermediate", ref.data_index, 0, "element")}]}

\* A slip: the table is read before the assertion.
resolve_input_unsupported_reads(ev, ref, left_row_index, right_row_index) ==
  {[result |-> IF ev.has_nulls THEN Null ELSE Some(0),
    reads |-> {Read(select_table(ev, ref).source, ref.data_index, left_row_index, "element")},
    asserts |-> cudf_assert("Unsupported type in resolve_input.")]}

\* resolve_input for an Element without an element accessor.
resolve_input_unsupported(ev, ref, left_row_index, right_row_index) ==
  {[result |-> IF ev.has_nulls THEN Null ELSE Some(0), reads |-> {},
    asserts |-> cudf_assert("Unsupported type in resolve_input.")]}

\* resolve_input<Element>: the overload that has_element_accessor selects.
resolve_input_dispatch(ev, Element, ref, left_row_index, right_row_index) ==
  IF has_element_accessor(Element)
  THEN {[result |-> x.result, reads |-> x.reads, asserts |-> <<>>] :
          x \in resolve_input(ev, ref, left_row_index, right_row_index)}
  ELSE resolve_input_unsupported(ev, ref, left_row_index, right_row_index)

(***************************************************************************)
(* expression_output_handler::resolve_output                               *)
(***************************************************************************)
\* A slip: the reference type is not consulted and every result goes to the sink.
resolve_output_to_sink(ev, output_object, ref, row_index, result) ==
  [output_object |-> set_value(output_object, row_index, result, ev.has_nulls),
   thread_intermediate_storage |->
     IF ref.reference_type = "COLUMN"
     THEN ev.thread_intermediate_storage
     ELSE [ev.thread_intermediate_storage EXCEPT ![ref.data_index] = result]]

\* A slip: the intermediate is stored one slot off.
resolve_output_next_slot(ev, output_object, ref, row_index, result) ==
  IF ref.reference_type = "COLUMN"
  THEN [output_object |-> set_value(output_object, row_index, result, ev.has_nulls),
        thread_intermediate_storage |-> ev.thread_intermediate_storage]
  ELSE [output_object |-> output_object,
        thread_intermediate_storage |->
          [ev.thread_intermediate_storage EXCEPT ![(ref.data_index + 1) % NumSlots] = result]]

\* A slip: writing the sink also clears the intermediate storage.
resolve_output_clearing_slots(ev, output_object, ref, row_index, result) ==
  IF ref.reference_type = "COLUMN"
  THEN [output_object |-> set_value(output_object, row_index, result, ev.has_nulls),
        thread_intermediate_storage |-> [s \in Slots |-> Some(0)]]
  ELSE [output_object |-> output_object,
        thread_intermediate_storage |->
          [ev.thread_intermediate_storage EXCEPT ![ref.data_index] = result]]

resolve_output(ev, output_object, ref, row_index, result) ==
  IF ref.reference_type = "COLUMN"
  THEN [output_object |-> set_value(output_object, row_index, result, ev.has_nulls),
        thread_intermediate_storage |-> ev.thread_intermediate_storage]
  ELSE [output_object |-> output_object,
        thread_intermediate_storage |->
          [ev.thread_intermediate_storage EXCEPT ![ref.data_index] = result]]

\* resolve_output for an Element that is not layout compatible with a slot.
resolve_output_invalid(ev, output_object, ref, row_index, result) ==
  [output_object |-> output_object,
   thread_intermediate_storage |-> ev.thread_intermediate_storage,
   asserts |-> cudf_assert("Invalid type in resolve_output.")]

\* A slip: the layout of Element is not checked.
resolve_output_dispatch_unchecked(ev, Element, output_object, ref, row_index, result) ==
  LET w == resolve_output(ev, output_object, ref, row_index, result)
  IN [output_object |-> w.output_object,
      thread_intermediate_storage |-> w.thread_intermediate_storage,
      asserts |-> <<>>]

\* resolve_output<Element>: the overload that is_rep_layout_compatible selects.
resolve_output_dispatch(ev, Element, output_object, ref, row_index, result) ==
  IF is_rep_layout_compatible(Element)
  THEN LET w == resolve_output(ev, output_object, ref, row_index, result)
       IN [output_object |-> w.output_object,
           thread_intermediate_storage |-> w.thread_intermediate_storage,
           asserts |-> <<>>]
  ELSE resolve_output_invalid(ev, output_object, ref, row_index, result)

(***************************************************************************)
(* unary_expression_output_handler / binary_expression_output_handler:     *)
(* the typed result of the operator, and whether the functor was applied.  *)
(***************************************************************************)
\* A slip: a null input is given to the functor as if it held a value.
unary_result_of_null(ev, op, input) ==
  [result |-> Some(unary_operator_functor(op, input.value)), applied |-> TRUE]

unary_result(ev, op, input) ==
  IF ev.has_nulls
  THEN IF input.has_value
       THEN [result |-> Some(unary_operator_functor(op, input.value)), applied |-> TRUE]
       ELSE [result |-> Null, applied |-> FALSE]
  ELSE [result |-> Some(unary_operator_functor(op, input.value)), applied |-> TRUE]

\* A slip: the left operand is given to the functor twice.
apply_binary_lhs_twice(op, lhs, rhs) ==
  [result |-> Some(binary_operator_functor(op, lhs.value, lhs.value)), applied |-> TRUE]

apply_binary(op, lhs, rhs) ==
  [result |-> Some(binary_operator_functor(op, lhs.value, rhs.value)), applied |-> TRUE]

\* A slip in case 1: the null-equality policy is not consulted.
equality_result_ignoring_policy(compare_nulls, op, lhs, rhs) ==
  IF ~lhs.has_value /\ ~rhs.has_value
  THEN [result |-> Some(1), applied |-> FALSE]
  ELSE IF lhs.has_value /\ rhs.has_value
  THEN apply_binary(op, lhs, rhs)
  ELSE [result |-> Null, applied |-> FALSE]

\* A slip in case 1: one null operand is enough to answer by the policy.
equality_result_any_null(compare_nulls, op, lhs, rhs) ==
  IF ~lhs.has_value \/ ~rhs.has_value
  THEN [result |-> Some(Bool(compare_nulls = "EQUAL")), applied |-> FALSE]
  ELSE apply_binary(op, lhs, rhs)

\* has_nulls, op == ast_operator::EQUAL: the three cases of the special handling.
equality_result(compare_nulls, op, lhs, rhs) ==
  IF ~lhs.has_value /\ ~rhs.has_value
  THEN [result |-> Some(Bool(compare_nulls = "EQUAL")), applied |-> FALSE]
  ELSE IF lhs.has_value /\ rhs.has_value
  THEN apply_binary(op, lhs, rhs)
  ELSE [result |-> Null, applied |-> FALSE]

\* A slip in the default branch: one present operand is enough to compute.
propagate_nulls_either(op, lhs, rhs) ==
  IF lhs.has_value \/ rhs.has_value
  THEN apply_binary(op, lhs, rhs)
  ELSE [result |-> Null, applied |-> FALSE]

\* has_nulls, every other binary operator: propagate nulls.
propagate_nulls(op, lhs, rhs) ==
  IF lhs.has_value /\ rhs.has_value
  THEN apply_binary(op, lhs, rhs)
  ELSE [result |-> Null, applied |-> FALSE]

binary_result(ev, op, lhs, rhs) ==
  IF ev.has_nulls
  THEN IF op = "EQUAL"
       THEN equality_result(ev.compare_nulls, op, lhs, rhs)
       ELSE propagate_nulls(op, lhs, rhs)
  ELSE apply_binary(op, lhs, rhs)

(***************************************************************************)
(* expression_evaluator::operator() for a unary and for a binary operator: *)
(* resolve the operands, dispatch the operator, hand the result to         *)
(* resolve_output.  Each is the set of outcomes of the call.               *)
(***************************************************************************)
Outcome(ev, Out, output_object, output, output_row_index, inputs, reads, r) ==
  LET w == resolve_output_dispatch(ev, Out, output_object, output, output_row_index, r.result)
  IN [output_object |-> w.output_object,
      thread_intermediate_storage |-> w.thread_intermediate_storage,
      inputs |-> inputs, reads |-> reads,
      result |-> r.result, applied |-> r.applied, asserts |-> w.asserts]

\* The call ends at a failed assertion, having written nothing.
Asserted(ev, output_object, inputs, reads, asserts) ==
  [output_object |-> output_object,
   thread_intermediate_storage |-> ev.thread_intermediate_storage,
   inputs |-> inputs, reads |-> reads,
   result |-> Null, applied |-> FALSE, asserts |-> asserts]

\* A slip: the invalid overload stores a null result before it asserts.
unary_handler_writes(ev, Input, output_object, output, output_row_index, op, input, reads) ==
  IF is_valid_unary_op(op, Input)
  THEN Outcome(ev, result_type(op, Input), output_object, output, output_row_index,
               <<input>>, reads, unary_result(ev, op, input))
  ELSE [Outcome(ev, "INT32", output_object, output, output_row_index,
                <<input>>, reads, [result |-> Null, applied |-> FALSE])
          EXCEPT !.asserts =
            cudf_assert("Invalid unary dispatch operator for the provided input.")]

\* unary_expression_output_handler<Input>::operator()<op>: the overload that
\* is_valid_unary_op selects.
unary_handler(ev, Input, output_object, output, output_row_index, op, input, reads) ==
  IF is_valid_unary_op(op, Input)
  THEN Outcome(ev, result_type(op, Input), output_object, output, output_row_index,
               <<input>>, reads, unary_result(ev, op, input))
  ELSE Asserted(ev, output_object, <<input>>, reads,
                cudf_assert("Invalid unary dispatch operator for the provided input."))

\* binary_expression_output_handler<LHS, RHS>::operator()<op>: the overload
\* that is_valid_binary_op selects.
binary_handler(ev, LHS, RHS, output_object, output, output_row_index, op, lhs, rhs, reads) ==
  IF is_valid_binary_op(op, LHS, RHS)
  THEN Outcome(ev, result_type(op, LHS), output_object, output, output_row_index,
               <<lhs, rhs>>, reads, binary_result(ev, op, lhs, rhs))
  ELSE Asserted(ev, output_object, <<lhs, rhs>>, reads,
                cudf_assert("Invalid binary dispatch operator for the provided input."))

\* The unary call passes no right row index to resolve_input.
evaluate_unary(ev, output_object, input_row_index, input, output, output_row_index, op) ==
  LET Input == input.data_type
  IN {IF typed_input.asserts # <<>>
      THEN Asserted(ev, output_object, <<>>, typed_input.reads, typed_input.asserts)
      ELSE unary_handler(ev, Input, output_object, output, output_row_index, op,
                         typed_input.result, typed_input.reads) :
        typed_input \in resolve_input_dispatch(ev, Input, input, input_row_index, Null)}

\* A slip: the dispatch is on the types of both operand references.
evaluate_binary_two_types(ev, output_object, left_row_index, right_row_index, lhs, rhs, output, output_row_index, op) ==
  LET LHS == lhs.data_type
      RHS == rhs.data_type
  IN UNION {
       IF typed_lhs.asserts # <<>>
       THEN {Asserted(ev, output_object, <<>>, typed_lhs.reads, typed_lhs.asserts)}
       ELSE {IF typed_rhs.asserts # <<>>
             THEN Asserted(ev, output_object, <<>>, typed_lhs.reads \cup typed_rhs.reads,
                           typed_rhs.asserts)
             ELSE binary_handler(ev, LHS, RHS, output_object, output, output_row_index, op,
                                 typed_lhs.result, typed_rhs.result,
                                 typed_lhs.reads \cup typed_rhs.reads) :
               typed_rhs \in resolve_input_dispatch(ev, RHS, rhs, left_row_index,
                                                    Some(right_row_index))} :
       typed_lhs \in resolve_input_dispatch(ev, LHS, lhs, left_row_index,
                                            Some(right_row_index))}

\* single_dispatch_binary_operator: both operands are resolved as LHS, the
\* type of the left operand.
evaluate_binary(ev, output_object, left_row_index, right_row_index, lhs, rhs, output, output_row_index, op) ==
  LET LHS == lhs.data_type
  IN UNION {
       IF typed_lhs.asserts # <<>>
       THEN {Asserted(ev, output_object, <<>>, typed_lhs.reads, typed_lhs.asserts)}
       ELSE {IF typed_rhs.asserts # <<>>
             THEN Asserted(ev, output_object, <<>>, typed_lhs.reads \cup typed_rhs.reads,
                           typed_rhs.asserts)
             ELSE binary_handler(ev, LHS, LHS, output_object, output, output_row_index, op,
                                 typed_lhs.result, typed_rhs.result,
                                 typed_lhs.reads \cup typed_rhs.reads) :
               typed_rhs \in resolve_input_dispatch(ev, LHS, rhs, left_row_index,
                                                    Some(right_row_index))} :
       typed_lhs \in resolve_input_dispatch(ev, LHS, lhs, left_row_index,
                                            Some(right_row_index))}

(***************************************************************************)
(* One iteration of the loop of expression_evaluator::evaluate: the body   *)
(* for operator operator_index with the cursor at operator_source_index.   *)
(***************************************************************************)
SourceRef(plan, i) ==
  Seq0(plan.data_references, Seq0(plan.operator_source_indices, i))

\* A slip: the output reference's increment is missing for binary operators.
next_source_index_short(operator_source_index, arity) ==
  operator_source_index + 2

\* The cursor after an operator: one operator_source_index++ per operand
\* reference and one for the output reference.
next_source_index(operator_source_index, arity) ==
  operator_source_index + arity + 1

evaluate_operator(ev, output_object, operator_index, operator_source_index, left_row_index, right_row_index, output_row_index) ==
  LET plan == ev.plan
      op == Seq0(plan.operators, operator_index)
      arity == ast_operator_arity(op)
      step(o, refs, output, n) ==
        [output_object |-> o.output_object,
         thread_intermediate_storage |-> o.thread_intermediate_storage,
         operator_source_index |-> next_source_index(operator_source_index, n),
         last |-> [operator_index |-> operator_index, op |-> op,
                   cursor |-> operator_source_index,
                   input_refs |-> refs, output |-> output,
                   inputs |-> o.inputs, reads |-> o.reads,
                   result |-> o.result, applied |-> o.applied,
                   asserts |-> o.asserts,
                   prior_write |-> <<>>]]
  IN IF arity = 1
     THEN LET input == SourceRef(plan, operator_source_index)
              output == SourceRef(plan, operator_source_index + 1)
              input_row_index == IF input.table_source = "LEFT"
                                 THEN left_row_index
                                 ELSE right_row_index
          IN {step(o, <<input>>, output, 1) :
                o \in evaluate_unary(ev, output_object, input_row_index,
                                     input, output, output_row_index, op)}
     ELSE IF arity = 2
     THEN LET lhs == SourceRef(plan, operator_source_index)
              rhs == SourceRef(plan, operator_source_index + 1)
              output == SourceRef(plan, operator_source_index + 2)
          IN {step(o, <<lhs, rhs>>, output, 2) :
                o \in evaluate_binary(ev, output_object, left_row_index, right_row_index,
                                      lhs, rhs, output, output_row_index, op)}
     ELSE {[output_object |-> output_object,
            thread_intermediate_storage |-> ev.thread_intermediate_storage,
            operator_source_index |-> operator_source_index,
            last |-> [operator_index |-> operator_index, op |-> op,
                      cursor |-> operator_source_index,
                      input_refs |-> <<>>, output |-> Ref("NONE", 0, "LEFT"),
                      inputs |-> <<>>, reads |-> {},
                      result |-> Null, applied |-> FALSE,
                      asserts |-> cudf_assert("Invalid operator arity."),
                      prior_write |-> <<>>]]}

(***************************************************************************)
(* State: the evaluator object, the sink, the arguments of evaluate and    *)
(* the two loop variables.  last, executed and last_write are history      *)
(* variables: the operator executed by the latest step (with last_write as *)
(* it was before the step), the operator indices executed so far, and per  *)
(* slot the value of its latest write; at_entry is the sink and the        *)
(* intermediate storage as they were when evaluate was called.             *)
(* assertions holds the message of the device-side assertion that aborted  *)
(* the thread, if one did.  When a block of threads evaluates the plan,    *)
(* one thread per row, threads holds each thread's place in the loop and   *)
(* intermediate_storage is the block's shared memory.                      *)
(***************************************************************************)
VARIABLES evaluator, output_object,
          left_row_index, right_row_index, output_row_index,
          operator_index, operator_source_index,
          last, executed, last_write, at_entry, assertions,
          threads, intermediate_storage

(***************************************************************************)
(* State of the hash-join kernels: kernel holds the launch configuration   *)
(* and the kernel arguments passed by value, cuda_threads the locals of    *)
(* each thread of the grid, multi_map the hash table, error and            *)
(* output_size the words the kernels report through, and visited is a      *)
(* history of the rows the grid-stride loops have visited.  For            *)
(* probe_hash_table kernel also holds the memory behind its pointer        *)
(* arguments (current_idx, join_output) and the shared arrays of its       *)
(* blocks (current_idx_shared, join_shared), and visited the pairs added   *)
(* to the caches and flushed from them.                                    *)
(***************************************************************************)
VARIABLES kernel, cuda_threads, multi_map, error, output_size, visited

\* The call of scan_agg_dispatch: its arguments and what it came to.
VARIABLES scan

evaluator_vars ==
  <<evaluator, output_object, left_row_index, right_row_index, output_row_index,
    operator_index, operator_source_index, last, executed, last_write, at_entry,
    assertions, threads, intermediate_storage>>

join_vars == <<kernel, cuda_threads, multi_map, error, output_size, visited>>

vars == <<evaluator, output_object, left_row_index, right_row_index, output_row_index,
          operator_index, operator_source_index, last, executed, last_write, at_entry,
          assertions, threads, intermediate_storage,
          kernel, cuda_threads, multi_map, error, output_size, visited, scan>>

\* No scan is called.
NoScan == scan = <<>>

\* No join kernel is launched.
NoKernel ==
  /\ kernel = <<>>
  /\ cuda_threads = <<>>
  /\ multi_map = <<>>
  /\ error = 0
  /\ output_size = 0
  /\ visited = <<>>

NoOperator ==
  [operator_index |-> -1, op |-> "NONE", cursor |-> 0, input_refs |-> <<>>,
   output |-> Ref("NONE", 0, "LEFT"), inputs |-> <<>>, reads |-> {},
   result |-> Null, applied |-> FALSE, asserts |-> <<>>,
   prior_write |-> [s \in Slots |-> [written |-> FALSE, value |-> Null]]]

Unwritten == [written |-> FALSE, value |-> Null]

\* What uninitialised memory may hold: any bit pattern, which under has_nulls
\* includes a cleared validity flag.
Uninitialised(has_nulls) ==
  {Some(g) : g \in GarbageValues} \cup (IF has_nulls THEN {Null} ELSE {})

\* A column sink over an output column of NumRows rows, or a scalar sink.
ColumnSink(has_nulls) ==
  [kind |-> "column", data |-> [r \in Rows |-> 0], valid |-> [r \in Rows |-> ~has_nulls],
   _obj |-> Null, set_value_calls |-> <<>>]

ValueSink(u) ==
  [kind |-> "value", data |-> [r \in Rows |-> 0], valid |-> [r \in Rows |-> FALSE],
   _obj |-> u, set_value_calls |-> <<>>]

Evaluator(left, right, plan, storage, compare_nulls, has_nulls) ==
  [left |-> left, right |-> right, plan |-> plan,
   thread_intermediate_storage |-> storage,
   compare_nulls |-> compare_nulls, has_nulls |-> has_nulls]

\* A slip: the table is bound to left only and right is another table.
EvaluatorOneTableLeftOnly(table, plan, storage, compare_nulls, has_nulls) ==
  Evaluator(table, Table(RightData, [r \in Rows |-> TRUE]), plan, storage,
            compare_nulls, has_nulls)

\* The constructor acting on one table: left(table), right(table).
EvaluatorOneTable(table, plan, storage, compare_nulls, has_nulls) ==
  Evaluator(table, table, plan, storage, compare_nulls, has_nulls)

\* The state at the call of evaluate, for a plan of the given set.
InitOf(plans) ==
  \E plan \in plans, has_nulls \in BOOLEAN, compare_nulls \in {"EQUAL", "UNEQUAL"},
     lm \in Masks, rm \in Masks, kind \in {"column", "value"} :
    \E u \in Uninitialised(has_nulls) :
      /\ evaluator = Evaluator(Table(LeftData, lm), Table(RightData, rm), plan,
                               [s \in Slots |-> u], compare_nulls, has_nulls)
      /\ output_object = IF kind = "column" THEN ColumnSink(has_nulls) ELSE ValueSink(u)
      /\ left_row_index \in Rows
      /\ right_row_index \in Rows
      /\ output_row_index \in Rows
      /\ operator_index = 0
      /\ operator_source_index = 0
      /\ last = NoOperator
      /\ executed = <<>>
      /\ last_write = [s \in Slots |-> Unwritten]
      /\ at_entry = [output_object |-> output_object,
                     thread_intermediate_storage |-> [s \in Slots |-> u]]
      /\ assertions = <<>>
      /\ threads = <<>>
      /\ intermediate_storage = <<>>
      /\ NoKernel
      /\ NoScan

Init == InitOf(Plans)

\* A slip: the stored result is also cached in the plan's literal array.
store_intermediates_and_literal(ev, storage) ==
  [ev EXCEPT !.thread_intermediate_storage = storage,
             !.plan.literals[1] = [value |-> storage[0].value, is_valid |-> TRUE]]

\* The evaluator after its operator has run: of its members only the
\* contents of thread_intermediate_storage can have changed.
store_intermediates(ev, storage) ==
  [ev EXCEPT !.thread_intermediate_storage = storage]

EdgeInit == InitOf(EdgePlans)

UncheckedInit == InitOf(UncheckedPlans)

\* The thread was aborted by a failed assertion.
Aborted == assertions # <<>>

\* One iteration of the for loop of evaluate.
EvaluateOperator ==
  /\ ~Aborted
  /\ operator_index < NumOperators(evaluator.plan)
  /\ \E o \in evaluate_operator(evaluator, output_object, operator_index,
                                operator_source_index, left_row_index,
                                right_row_index, output_row_index) :
       /\ evaluator' = store_intermediates(evaluator, o.thread_intermediate_storage)
       /\ output_object' = o.output_object
       /\ operator_source_index' = o.operator_source_index
       /\ last' = [o.last EXCEPT !.prior_write = last_write]
       /\ assertions' = o.last.asserts
       /\ IF o.last.asserts # <<>>
          THEN UNCHANGED <<last_write, operator_index, executed>>
          ELSE /\ last_write' = IF o.last.output.reference_type = "COLUMN"
                                THEN last_write
                                ELSE [last_write EXCEPT ![o.last.output.data_index] =
                                        [written |-> TRUE, value |-> o.last.result]]
               /\ operator_index' = operator_index + 1
               /\ executed' = Append(executed, operator_index)
  /\ UNCHANGED <<left_row_index, right_row_index, output_row_index, at_entry,
                 threads, intermediate_storage>>
  /\ UNCHANGED <<join_vars, scan>>

Next == EvaluateOperator

Spec == Init /\ [][Next]_vars

(***************************************************************************)
(* A block of threads, one per row, each calling evaluate(output_object,   *)
(* row_index) on its own evaluator: the evaluators share the tables, the   *)
(* plan and the output column, and each is handed its slice of the block's *)
(* shared memory.  A step is one loop iteration of one thread.             *)
(***************************************************************************)
Threads == Rows

\* A slip: every thread is handed the start of the shared memory.
slice_of_block(t) == 0

\* Thread t's slice: &intermediate_storage[t * num_intermediates].
slice(t) == t * NumSlots

thread_intermediate_storage(memory, t) == [s \in Slots |-> memory[slice(t) + s]]

store_slice(memory, t, storage) ==
  [a \in DOMAIN memory |->
     IF a \in slice(t) .. (slice(t) + NumSlots - 1) THEN storage[a - slice(t)] ELSE memory[a]]

ParallelPlans == {PlanC, PlanF, PlanU, PlanReuse, PlanZero}

ParallelInit ==
  \E plan \in ParallelPlans, has_nulls \in BOOLEAN, compare_nulls \in {"EQUAL", "UNEQUAL"},
     lm \in Masks, rm \in Masks :
    \E u \in Uninitialised(has_nulls) :
      /\ evaluator = Evaluator(Table(LeftData, lm), Table(RightData, rm), plan,
                               [s \in Slots |-> u], compare_nulls, has_nulls)
      /\ output_object = ColumnSink(has_nulls)
      /\ threads = [t \in Threads |->
                      [operator_index |-> 0, operator_source_index |-> 0, assertions |-> <<>>]]
      /\ intermediate_storage = [a \in 0 .. (NumRows * NumSlots - 1) |-> u]
      /\ left_row_index = 0
      /\ right_row_index = 0
      /\ output_row_index = 0
      /\ operator_index = 0
      /\ operator_source_index = 0
      /\ last = NoOperator
      /\ executed = <<>>
      /\ last_write = [s \in Slots |-> Unwritten]
      /\ at_entry = [output_object |-> output_object,
                     thread_intermediate_storage |-> [s \in Slots |-> u]]
      /\ assertions = <<>>
      /\ NoKernel
      /\ NoScan

\* One iteration of the loop of evaluate(output_object, t) in thread t.
ThreadStep(t) ==
  /\ threads[t].assertions = <<>>
  /\ threads[t].operator_index < NumOperators(evaluator.plan)
  /\ \E o \in evaluate_operator(
               [evaluator EXCEPT !.thread_intermediate_storage =
                                    thread_intermediate_storage(intermediate_storage, t)],
               output_object, threads[t].operator_index,
               threads[t].operator_source_index, t, t, t) :
       /\ output_object' = o.output_object
       /\ intermediate_storage' =
            store_slice(intermediate_storage, t, o.thread_intermediate_storage)
       /\ threads' = [threads EXCEPT ![t] =
                        [operator_index |-> IF o.last.asserts = <<>> THEN @.operator_index + 1
                                            ELSE @.operator_index,
                         operator_source_index |-> o.operator_source_index,
                         assertions |-> o.last.asserts]]
  /\ UNCHANGED <<evaluator, left_row_index, right_row_index, output_row_index,
                 operator_index, operator_source_index, last, executed, last_write,
                 at_entry, assertions>>
  /\ UNCHANGED <<join_vars, scan>>

ParallelNext == \E t \in Threads : ThreadStep(t)

ParallelSpec == ParallelInit /\ [][ParallelNext]_vars

\* The state at the call of evaluate on an evaluator constructed from one table.
OneTableInit ==
  \E plan \in Plans, has_nulls \in BOOLEAN, compare_nulls \in {"EQUAL", "UNEQUAL"},
     mask \in Masks, kind \in {"column", "value"} :
    \E u \in Uninitialised(has_nulls) :
      /\ evaluator = EvaluatorOneTable(Table(LeftData, mask), plan, [s \in Slots |-> u],
                                       compare_nulls, has_nulls)
      /\ output_object = IF kind = "column" THEN ColumnSink(has_nulls) ELSE ValueSink(u)
      /\ left_row_index \in Rows
      /\ right_row_index \in Rows
      /\ output_row_index \in Rows
      /\ operator_index = 0
      /\ operator_source_index = 0
      /\ last = NoOperator
      /\ executed = <<>>
      /\ last_write = [s \in Slots |-> Unwritten]
      /\ at_entry = [output_object |-> output_object,
                     thread_intermediate_storage |-> [s \in Slots |-> u]]
      /\ assertions = <<>>
      /\ threads = <<>>
      /\ intermediate_storage = <<>>
      /\ NoKernel
      /\ NoScan

OneTableSpec == OneTableInit /\ [][Next]_vars

\* Evaluation of the plans that carry a programmer error or a null literal.
EdgeSpec == EdgeInit /\ [][Next]_vars

\* Evaluation of the plans that no validation of the evaluator rejects.
UncheckedSpec == UncheckedInit /\ [][Next]_vars

\* The loop runs to its end: a launched evaluation is never suspended.
FairSpec == Spec /\ WF_vars(EvaluateOperator)

\* evaluate has returned.
Done == operator_index = NumOperators(evaluator.plan)

TypeOK ==
  /\ operator_index \in 0 .. NumOperators(evaluator.plan)
  /\ operator_source_index \in 0 .. Len(evaluator.plan.operator_source_indices)

(***************************************************************************)
(* expression_evaluator::evaluate as a whole: the sinks and intermediate   *)
(* storages the loop can end with, started at operator operator_index.     *)
(***************************************************************************)
RECURSIVE evaluate(_, _, _, _, _, _, _)
evaluate(ev, sink, k, c, lr, rr, orow) ==
  IF k >= NumOperators(ev.plan)
  THEN {[output_object |-> sink,
         thread_intermediate_storage |-> ev.thread_intermediate_storage]}
  ELSE UNION {
         IF o.last.asserts # <<>>
         THEN {[output_object |-> o.output_object,
                thread_intermediate_storage |-> o.thread_intermediate_storage]}
         ELSE evaluate([ev EXCEPT !.thread_intermediate_storage =
                                     o.thread_intermediate_storage],
                       o.output_object, k + 1, o.operator_source_index, lr, rr, orow) :
         o \in evaluate_operator(ev, sink, k, c, lr, rr, orow)}

\* A slip: only the left and output row indices are forwarded.
evaluate_row_index_left(ev, sink, row_index) ==
  evaluate(ev, sink, 0, 0, row_index, 0, row_index)

\* evaluate(output_object, row_index)
evaluate_row_index(ev, sink, row_index) ==
  evaluate(ev, sink, 0, 0, row_index, row_index, row_index)

(***************************************************************************)
(* The hash-join kernels of join_kernels.cuh.                              *)
(*                                                                         *)
(* cudf::size_type is a signed integer of SizeTypeBits bits and a hash     *)
(* value an unsigned integer of HashBits bits: the widths are scaled down  *)
(* from 32 so that the row counts at which the arithmetic leaves the type  *)
(* are within reach.                                                       *)
(***************************************************************************)
SizeTypeBits == 3

HashBits == 2

SizeTypeMax == 2 ^ (SizeTypeBits - 1) - 1

SizeTypeMin == 0 - 2 ^ (SizeTypeBits - 1)

SizeTypes == SizeTypeMin .. SizeTypeMax

\* Conversion of an integer to cudf::size_type (modular).
to_size_type(x) == ((x - SizeTypeMin) % (2 ^ SizeTypeBits)) + SizeTypeMin

HashMax == 2 ^ HashBits - 1

Hashes == 0 .. HashMax

\* The value before remapping: the sentinel is returned as it is.
remap_sentinel_hash_identity(hash, sentinel) == hash

\* remap_sentinel_hash(hash, sentinel); hash - 1 is unsigned arithmetic.
remap_sentinel_hash(hash, sentinel) ==
  IF hash = sentinel THEN (hash + HashMax) % (HashMax + 1) ELSE hash

\* The largest build and probe tables of the launches.
MaxBuildRows == 3

MaxProbeRows == 3

\* Launch configurations <<blockDim.x, gridDim.x>>.
LaunchConfigurations == {<<1, 1>>, <<2, 1>>, <<1, 2>>}

\* The threads <<blockIdx.x, threadIdx.x>> of a launch.
Grid(k) == (0 .. k.gridDim - 1) \X (0 .. k.blockDim - 1)

\* threadIdx.x + blockIdx.x * blockDim.x
global_thread_index(k, t) == t[2] + t[1] * k.blockDim

\* blockDim.x * gridDim.x
grid_stride(k) == k.blockDim * k.gridDim

\* Key column of the build table and of the probe table.
BuildKey(i) == i % 2

ProbeKey(j) == (3 * j + 1) % 4

build_table(n) == [i \in 0 .. n - 1 |-> BuildKey(i)]

probe_table(n) == [j \in 0 .. n - 1 |-> ProbeKey(j)]

\* The row hasher: keys other than 0 collide on the largest hash value.
row_hash(key) == IF key = 0 THEN 0 ELSE HashMax

\* hash_build(i): a row index outside the table reads foreign memory.
hash_build(k, i) ==
  IF i \in DOMAIN k.build_table THEN {row_hash(k.build_table[i])} ELSE Hashes

\* cudf::bit_is_set(row_bitmask, i), likewise.
bit_is_set(row_bitmask, i) ==
  IF i \in DOMAIN row_bitmask THEN {row_bitmask[i]} ELSE BOOLEAN

NullBitmask == <<>>

RowBitmasks(n) == {NullBitmask} \cup [0 .. n - 1 -> BOOLEAN]

(***************************************************************************)
(* concurrent_unordered_multimap: open addressing with linear probing, an  *)
(* unused slot holding the unused key.  The slots are 0 .. capacity - 1    *)
(* and end() is the slot index capacity.                                   *)
(***************************************************************************)
MapSizes == {1, 2, 4}

capacity(map) == Cardinality(DOMAIN map)

map_end(map) == capacity(map)

unused_element == SizeTypeMin - 1

EmptyMap(size, unused_key) ==
  [s \in 0 .. size - 1 |-> [first |-> unused_key, second |-> unused_element]]

\* Slots visited from the slot of a hash value, in probing order.
ProbeSequence(map, hash_value) ==
  [n \in 1 .. capacity(map) |-> (hash_value + n - 1) % capacity(map)]

\* insert(pair, true, hash_value): the first unused slot met, or end().
insert_location(map, unused_key, hash_value) ==
  LET sequence == ProbeSequence(map, hash_value)
      free == {n \in DOMAIN sequence : map[sequence[n]].first = unused_key}
  IN  IF free = {} THEN map_end(map)
      ELSE sequence[CHOOSE n \in free : \A m \in free : n <= m]

insert(map, unused_key, pair, hash_value) ==
  LET location == insert_location(map, unused_key, hash_value)
  IN  IF location = map_end(map) THEN map ELSE [map EXCEPT ![location] = pair]

\* find(key, true, hash_value): the first slot holding the key that is met
\* before an unused slot, or end().
find(map, unused_key, key, hash_value) ==
  LET sequence == ProbeSequence(map, hash_value)
      stop == {n \in DOMAIN sequence : map[sequence[n]].first \in {key, unused_key}}
  IN  IF stop = {} THEN map_end(map)
      ELSE LET slot == sequence[CHOOSE n \in stop : \A m \in stop : n <= m]
           IN  IF map[slot].first = unused_key THEN map_end(map) ELSE slot

UnusedKeys == {0, HashMax}

(***************************************************************************)
(* build_hash_table                                                        *)
(***************************************************************************)
\* How often each row of the table has been visited: 0, 1 or more.
Visit(count, i) ==
  [r \in DOMAIN count |-> IF r = i /\ count[r] < 2 THEN count[r] + 1 ELSE count[r]]

\* No expression is being evaluated.
NoEvaluator ==
  /\ evaluator = <<>>
  /\ output_object = <<>>
  /\ left_row_index = 0
  /\ right_row_index = 0
  /\ output_row_index = 0
  /\ operator_index = 0
  /\ operator_source_index = 0
  /\ last = NoOperator
  /\ executed = <<>>
  /\ last_write = <<>>
  /\ at_entry = <<>>
  /\ assertions = <<>>
  /\ threads = <<>>
  /\ intermediate_storage = <<>>

\* The launch of build_hash_table on an empty map.
BuildInit ==
  \E launch \in LaunchConfigurations, n \in 0 .. MaxBuildRows, unused_key \in UnusedKeys,
     size \in MapSizes, initial_error \in {0, 2} :
    \E row_bitmask \in RowBitmasks(n) :
      /\ NoEvaluator
      /\ NoScan
      /\ kernel = [name |-> "build_hash_table",
                   blockDim |-> launch[1], gridDim |-> launch[2],
                   build_table |-> build_table(n),
                   build_table_num_rows |-> n,
                   row_bitmask |-> row_bitmask,
                   unused_key |-> unused_key]
      /\ cuda_threads = [t \in Grid(kernel) |-> [i |-> global_thread_index(kernel, t)]]
      /\ multi_map = EmptyMap(size, unused_key)
      /\ error = initial_error
      /\ output_size = 0
      /\ visited = [rows |-> [i \in 0 .. n - 1 |-> 0],
                    insertions |-> [i \in 0 .. n - 1 |-> 0],
                    outside |-> FALSE,
                    keys |-> {},
                    failed |-> FALSE,
                    error |-> initial_error]

\* A slip: the error code is cleared by an insertion that succeeds.
error_code_of_last_insert(map, location, code) == IF map_end(map) = location THEN 1 ELSE 0

\* if (multi_map.end() == insert_location) { *error = 1; }
error_code(map, location, code) == IF map_end(map) = location THEN 1 ELSE code

\* i += blockDim.x * gridDim.x: the sum is unsigned and is converted back.
next_row(k, i) == to_size_type(i + grid_stride(k))

\* One iteration of the while loop of build_hash_table in thread t.
BuildStep(t) ==
  LET k == kernel
      i == cuda_threads[t].i
  IN  /\ kernel # <<>>
      /\ k.name = "build_hash_table"
      /\ i < k.build_table_num_rows
      /\ \E bit \in (IF k.row_bitmask = NullBitmask THEN {TRUE}
                     ELSE bit_is_set(k.row_bitmask, i)) :
           IF bit
             THEN \E hash \in hash_build(k, i) :
                    LET row_hash_value == remap_sentinel_hash(hash, k.unused_key)
                        location == insert_location(multi_map, k.unused_key, row_hash_value)
                    IN  /\ multi_map' = insert(multi_map, k.unused_key,
                                               [first |-> row_hash_value, second |-> i],
                                               row_hash_value)
                        /\ error' = error_code(multi_map, location, error)
                        /\ visited' = [visited EXCEPT
                             !.rows = Visit(@, i),
                             !.insertions = Visit(@, i),
                             !.outside = @ \/ i \notin DOMAIN visited.rows,
                             !.keys = @ \cup {row_hash_value},
                             !.failed = @ \/ map_end(multi_map) = location]
             ELSE /\ UNCHANGED <<multi_map, error>>
                  /\ visited' = [visited EXCEPT
                                   !.rows = Visit(@, i),
                                   !.outside = @ \/ i \notin DOMAIN visited.rows]
      /\ cuda_threads' = [cuda_threads EXCEPT ![t].i = next_row(k, i)]
      /\ UNCHANGED <<kernel, output_size>>
      /\ UNCHANGED <<evaluator_vars, scan>>

BuildNext == \E t \in DOMAIN cuda_threads : BuildStep(t)

BuildSpec == BuildInit /\ [][BuildNext]_vars

\* Every thread of the kernel has left its loop.
BuildDone == \A t \in DOMAIN cuda_threads : cuda_threads[t].i >= kernel.build_table_num_rows

(***************************************************************************)
(* compute_join_output_size                                                *)
(***************************************************************************)
JoinKinds == {"INNER_JOIN", "LEFT_JOIN"}

\* Signed arithmetic in cudf::size_type: a sum outside the type is
\* undefined, and stands for any value of the type.
signed_add(a, b) == IF a + b \in SizeTypes THEN {a + b} ELSE SizeTypes

\* probe_row_index += stride: outside the type the sum is undefined, and the
\* loop variable holds the sum reduced to the type or, kept in a wider
\* register, the sum itself.
next_probe_row(k, j) ==
  IF j + grid_stride(k) \in SizeTypes THEN {j + grid_stride(k)}
  ELSE {to_size_type(j + grid_stride(k)), j + grid_stride(k)}

\* std::size_t has twice the width of cudf::size_type.
to_size_t(x) == x % (2 ^ (2 * SizeTypeBits))

\* hash_probe(probe_row_index)
hash_probe(k, j) ==
  IF j \in DOMAIN k.probe_table THEN {row_hash(k.probe_table[j])} ELSE Hashes

\* check_row_equality(probe_row_index, build_row_index)
check_row_equality(k, j, i) ==
  IF j \in DOMAIN k.probe_table /\ i \in DOMAIN k.build_table
    THEN {k.probe_table[j] = k.build_table[i]}
    ELSE BOOLEAN

\* The map build_hash_table leaves when the rows are inserted in order.
RECURSIVE BuiltMap(_, _, _)
BuiltMap(size, n, unused_key) ==
  IF n = 0 THEN EmptyMap(size, unused_key)
  ELSE LET row_hash_value == remap_sentinel_hash(row_hash(BuildKey(n - 1)), unused_key)
       IN  insert(BuiltMap(size, n - 1, unused_key), unused_key,
                  [first |-> row_hash_value, second |-> n - 1], row_hash_value)

\* ++found, and begin() in the place of end().
next_slot(map, found) == IF found + 1 = map_end(map) THEN 0 ELSE found + 1

\* What each row of the probe table has added to the counter of its
\* thread: 0, 1, ... or more than the map has slots.
Counted(count, j, n) ==
  [r \in DOMAIN count |->
     IF r = j /\ count[r] + n <= capacity(multi_map) THEN count[r] + n
     ELSE IF r = j THEN capacity(multi_map) + 1
     ELSE count[r]]

\* The launch of compute_join_output_size on a built map.
ProbeInitOf(launches) ==
  \E launch \in launches, n \in 0 .. MaxProbeRows, b \in 0 .. MaxBuildRows,
     unused_key \in UnusedKeys, size \in MapSizes, JoinKind \in JoinKinds :
    /\ NoEvaluator
    /\ NoScan
    /\ kernel = [name |-> "compute_join_output_size",
                 JoinKind |-> JoinKind,
                 blockDim |-> launch[1], gridDim |-> launch[2],
                 build_table |-> build_table(b),
                 probe_table |-> probe_table(n),
                 probe_table_num_rows |-> n,
                 unused_key |-> unused_key]
    /\ cuda_threads = [t \in Grid(kernel) |->
                         [pc |-> "for",
                          thread_counter |-> 0,
                          probe_row_index |-> global_thread_index(kernel, t),
                          probe_row_hash_value |-> 0,
                          found |-> size,
                          running |-> FALSE,
                          found_match |-> FALSE]]
    /\ multi_map = BuiltMap(size, b, unused_key)
    /\ error = 0
    /\ output_size = 0
    /\ visited = [rows |-> [j \in 0 .. n - 1 |-> 0],
                  counted |-> [j \in 0 .. n - 1 |-> 0],
                  outside |-> FALSE,
                  keys |-> {}]

ProbeInit == ProbeInitOf(LaunchConfigurations)

IsProbe == kernel # <<>> /\ kernel.name = "compute_join_output_size"

\* The head of the for loop in thread t: the loop condition, and the
\* search of the map for the hash value of the probe row.
ProbeRow(t) ==
  LET k == kernel
      c == cuda_threads[t]
      j == c.probe_row_index
  IN  /\ IsProbe
      /\ c.pc = "for"
      /\ IF j < k.probe_table_num_rows
           THEN \E hash \in hash_probe(k, j) :
                  LET probe_row_hash_value == remap_sentinel_hash(hash, k.unused_key)
                      found == find(multi_map, k.unused_key, probe_row_hash_value,
                                    probe_row_hash_value)
                      running == (k.JoinKind = "LEFT_JOIN") \/ (map_end(multi_map) # found)
                  IN  /\ visited' = [visited EXCEPT
                                       !.rows = Visit(@, j),
                                       !.outside = @ \/ j \notin DOMAIN visited.rows,
                                       !.keys = @ \cup {probe_row_hash_value}]
                      /\ IF running
                           THEN cuda_threads' =
                                  [cuda_threads EXCEPT ![t] =
                                     [c EXCEPT !.pc = "while",
                                               !.probe_row_hash_value = probe_row_hash_value,
                                               !.found = found,
                                               !.running = TRUE,
                                               !.found_match = FALSE]]
                           ELSE \E next \in next_probe_row(k, j) :
                                  cuda_threads' =
                                    [cuda_threads EXCEPT ![t] =
                                       [c EXCEPT !.probe_row_hash_value = probe_row_hash_value,
                                                 !.found = found,
                                                 !.running = FALSE,
                                                 !.found_match = FALSE,
                                                 !.probe_row_index = next]]
           ELSE /\ cuda_threads' = [cuda_threads EXCEPT ![t].pc = "reduce"]
                /\ UNCHANGED visited
      /\ UNCHANGED <<kernel, multi_map, error, output_size>>
      /\ UNCHANGED <<evaluator_vars, scan>>

\* One iteration of while (running) in thread t.
ProbeSlot(t) ==
  LET k == kernel
      c == cuda_threads[t]
      j == c.probe_row_index
      left == k.JoinKind = "LEFT_JOIN"
      stop == (left /\ map_end(multi_map) = c.found)
                \/ k.unused_key = multi_map[c.found].first
      same == ~stop /\ multi_map[c.found].first = c.probe_row_hash_value
      found == IF stop THEN c.found ELSE next_slot(multi_map, c.found)
      running == ~stop /\ ~(k.unused_key = multi_map[found].first)
  IN  /\ IsProbe
      /\ c.pc = "while"
      /\ \E equal \in (IF same THEN check_row_equality(k, j, multi_map[c.found].second)
                       ELSE {FALSE}) :
           LET found_match == c.found_match \/ equal
               extra == left /\ ~running /\ ~found_match
           IN  \E matched \in (IF equal THEN signed_add(c.thread_counter, 1)
                               ELSE {c.thread_counter}) :
               \E thread_counter \in (IF extra THEN signed_add(matched, 1) ELSE {matched}) :
               \E next \in (IF running THEN {j} ELSE next_probe_row(k, j)) :
                 /\ cuda_threads' =
                      [cuda_threads EXCEPT ![t] =
                         [c EXCEPT !.pc = IF running THEN "while" ELSE "for",
                                   !.found = found,
                                   !.running = running,
                                   !.found_match = found_match,
                                   !.thread_counter = thread_counter,
                                   !.probe_row_index = next]]
                 /\ visited' = [visited EXCEPT
                                  !.counted = Counted(@, j, (IF equal THEN 1 ELSE 0)
                                                            + (IF extra THEN 1 ELSE 0))]
      /\ UNCHANGED <<kernel, multi_map, error, output_size>>
      /\ UNCHANGED <<evaluator_vars, scan>>

RECURSIVE Sum(_, _)
Sum(f, S) == IF S = {} THEN 0 ELSE LET x == CHOOSE y \in S : TRUE IN f[x] + Sum(f, S \ {x})

\* BlockReduce(temp_storage).Sum(thread_counter) in the threads of a block,
\* and the atomicAdd of its thread 0.
BlockSum(block) ==
  LET members == {t \in DOMAIN cuda_threads : t[1] = block}
      block_counter == to_size_t(Sum([t \in members |-> to_size_t(cuda_threads[t].thread_counter)],
                                     members))
  IN  /\ IsProbe
      /\ members # {}
      /\ \A t \in members : cuda_threads[t].pc = "reduce"
      /\ output_size' = to_size_t(output_size + block_counter)
      /\ cuda_threads' = [t \in DOMAIN cuda_threads |->
                            IF t \in members THEN [cuda_threads[t] EXCEPT !.pc = "done"]
                            ELSE cuda_threads[t]]
      /\ UNCHANGED <<kernel, multi_map, error, visited>>
      /\ UNCHANGED <<evaluator_vars, scan>>

ProbeNext ==
  \/ \E t \in DOMAIN cuda_threads : ProbeRow(t)
  \/ \E t \in DOMAIN cuda_threads : ProbeSlot(t)
  \/ \E block \in 0 .. 1 : BlockSum(block)

ProbeSpec == ProbeInit /\ [][ProbeNext]_vars

ProbeDone == \A t \in DOMAIN cuda_threads : cuda_threads[t].pc = "done"

\* Both kernels of the join.
JoinInit == BuildInit \/ ProbeInit

JoinNext == BuildNext \/ ProbeNext

JoinSpec == JoinInit /\ [][JoinNext]_vars

(***************************************************************************)
(* probe_hash_table.  A thread is <<blockIdx.x, threadIdx.x>>, a warp      *)
(* <<blockIdx.x, warp_id>>.  join_shared[w][i] is the pair                 *)
(* <<join_shared_l[warp_id][i], join_shared_r[warp_id][i]>>, join_output   *)
(* likewise.                                                               *)
(***************************************************************************)
\* detail::warp_size, scaled down.
warp_size == 2

JoinNoneValue == -1

\* The template argument output_cache_size: smaller than a warp, a warp, and
\* more than two warps.
OutputCacheSizes == {warp_size - 1, warp_size, 2 * warp_size + 1}

\* The argument max_size: the entries of the output arrays.
MaxOutputSize == 2

\* Launches <<blockDim.x, gridDim.x>> made of whole warps.
OutputLaunches == {<<warp_size, 1>>, <<2 * warp_size, 1>>, <<warp_size, 2>>}

\* threadIdx.x / detail::warp_size, within the block of the thread
warp_id(t) == <<t[1], t[2] \div warp_size>>

\* threadIdx.x % detail::warp_size
lane_id(t) == t[2] % warp_size

Warps(k) == {warp_id(t) : t \in Grid(k)}

\* What shared or global memory holds before it is written.
NoPair == <<unused_element, unused_element>>

\* The kernel at its launch: the arguments, the output arrays of max_size
\* entries and the counter behind current_idx, and the shared arrays.
probe_hash_table(launch, output_cache_size, JoinKind, b, n, unused_key, max_size) ==
  LET k == [blockDim |-> launch[1], gridDim |-> launch[2]]
  IN  [name |-> "probe_hash_table",
       JoinKind |-> JoinKind,
       blockDim |-> launch[1], gridDim |-> launch[2],
       build_table |-> build_table(b),
       probe_table |-> probe_table(n),
       probe_table_num_rows |-> n,
       unused_key |-> unused_key,
       output_cache_size |-> output_cache_size,
       max_size |-> max_size,
       current_idx |-> 0,
       join_output |-> [o \in 0 .. max_size - 1 |-> NoPair],
       current_idx_shared |-> [w \in Warps(k) |-> SizeTypeMin],
       join_shared |-> [w \in Warps(k) |-> [i \in 0 .. output_cache_size - 1 |-> NoPair]]]

\* The locals of a thread at the entry of the kernel.
Lane ==
  [pc |-> "begin", probe_row_index |-> 0, probe_row_hash_value |-> 0, found |-> 0,
   running |-> FALSE, found_match |-> FALSE, pairs |-> 0]

\* The history of a launch: per probe row the pairs added to a cache and
\* the pairs flushed, per warp the pairs added since the last flush, whether
\* a pair was written outside a cache, whether a flush had an offset below
\* the output arrays, the rows given a pair with JoinNoneValue, and the
\* rows compute_join_output_size visited and what it counted for each.
History(k, rows, counted) ==
  [added |-> [j \in DOMAIN k.probe_table |-> 0],
   nones |-> {},
   flushed |-> [j \in DOMAIN k.probe_table |-> 0],
   pending |-> [w \in Warps(k) |-> <<>>],
   outside |-> FALSE,
   wrapped |-> FALSE,
   rows |-> rows,
   counted |-> counted]

\* The launch of probe_hash_table on a built map, by the smallest grid of
\* blocks of the block size that has a thread for every probe row.
OutputInitOf(launches) ==
  \E launch \in launches, n \in 0 .. MaxProbeRows, b \in 0 .. MaxBuildRows,
     unused_key \in UnusedKeys, size \in MapSizes, JoinKind \in JoinKinds,
     output_cache_size \in OutputCacheSizes :
    /\ n <= launch[1] * launch[2]
    /\ launch[2] > 1 => n > launch[1] * (launch[2] - 1)
    /\ NoEvaluator
    /\ NoScan
    /\ kernel = probe_hash_table(launch, output_cache_size, JoinKind, b, n, unused_key,
                                 MaxOutputSize)
    /\ cuda_threads = [t \in Grid(kernel) |-> Lane]
    /\ multi_map = BuiltMap(size, b, unused_key)
    /\ error = 0
    /\ output_size = 0
    /\ visited = History(kernel, <<>>, <<>>)

OutputInit == OutputInitOf(OutputLaunches)

IsOutput == kernel # <<>> /\ kernel.name = "probe_hash_table"

\* The threads of warp w, and those of them with a probe row.
LanesOf(w) == {t \in DOMAIN cuda_threads : warp_id(t) = w}

ActiveLanesOf(w) ==
  {t \in LanesOf(w) : global_thread_index(kernel, t) < kernel.probe_table_num_rows}

\* A slip: the cache counts as full only when it is.
next_iteration_does_not_fit_when_full(current, output_cache_size) ==
  current >= output_cache_size

\* current_idx_shared[warp_id] + detail::warp_size >= output_cache_size
next_iteration_does_not_fit(current, output_cache_size) ==
  current + warp_size >= output_cache_size

\* A slip: the pair always goes to the first entry of the cache.
add_pair_to_cache_at_zero(k, w, first, second) ==
  [kernel |-> [k EXCEPT !.current_idx_shared[w] = @ + 1,
                        !.join_shared[w][0] = <<first, second>>],
   outside |-> FALSE]

\* add_pair_to_cache: the entry is reserved by atomicAdd on
\* current_idx_shared[warp_id] and written; an entry past the array is
\* outside the cache.
add_pair_to_cache(k, w, first, second) ==
  LET my_current_idx == k.current_idx_shared[w]
  IN  IF my_current_idx \in DOMAIN k.join_shared[w]
        THEN [kernel |-> [k EXCEPT !.current_idx_shared[w] = @ + 1,
                                   !.join_shared[w][my_current_idx] = <<first, second>>],
              outside |-> FALSE]
        ELSE [kernel |-> [k EXCEPT !.current_idx_shared[w] = @ + 1],
              outside |-> TRUE]

\* The pairs flush_output_cache reads from the cache of warp w.
Cached(k, w) ==
  [i \in 1 .. k.current_idx_shared[w] |->
     IF i - 1 \in DOMAIN k.join_shared[w] THEN k.join_shared[w][i - 1] ELSE NoPair]

\* flush_output_cache: lane 0 reserves current_idx_shared[warp_id] entries
\* of the output by atomicAdd on *current_idx, and the lanes copy the cached
\* pairs to the entries below max_size.
flush_output_cache(k, w) ==
  LET output_offset == k.current_idx
      cached == Cached(k, w)
      offsets == {output_offset + i - 1 : i \in DOMAIN cached}
  IN  [kernel |-> [k EXCEPT
                     !.current_idx = to_size_type(@ + k.current_idx_shared[w]),
                     !.join_output =
                        [o \in DOMAIN @ |->
                           IF o \in offsets THEN cached[o - output_offset + 1] ELSE @[o]]],
       wrapped |-> \E o \in offsets : o < 0]

\* A slip: the loop goes on while the first lane is running.
any_sync_of_first_lane(lanes, threads_of_warp) ==
  LET first == \E t \in lanes : lane_id(t) = 0 /\ threads_of_warp[t].running
  IN  [t \in lanes |->
         [threads_of_warp[t] EXCEPT
            !.pc = IF ~first THEN "final"
                   ELSE IF threads_of_warp[t].running THEN "body" ELSE "sync",
            !.pairs = 0]]

\* A slip: the loop goes on only while every lane is running.
all_sync(lanes, threads_of_warp) ==
  LET all == lanes # {} /\ \A t \in lanes : threads_of_warp[t].running
  IN  [t \in lanes |->
         [threads_of_warp[t] EXCEPT !.pc = IF all THEN "body" ELSE "final", !.pairs = 0]]

\* while (__any_sync(activemask, running)): the lanes of a warp with a
\* probe row meet; those running enter the body, the others wait at
\* __syncwarp(activemask), and the loop ends when none is running.
any_sync(lanes, threads_of_warp) ==
  LET any == \E t \in lanes : threads_of_warp[t].running
  IN  [t \in lanes |->
         [threads_of_warp[t] EXCEPT
            !.pc = IF ~any THEN "final"
                   ELSE IF threads_of_warp[t].running THEN "body" ELSE "sync",
            !.pairs = 0]]

\* Lines 221 to 241 in the threads of warp w, which run them in lockstep:
\* lane 0 clears the counter of the warp, and each thread with a probe row
\* searches the map for the row's hash value and comes to the loop.
OutputRows(w) ==
  LET k == kernel
      lanes == ActiveLanesOf(w)
      searched ==
        [t \in lanes |->
           LET probe_row_index == global_thread_index(k, t)
               probe_row_hash_value ==
                 remap_sentinel_hash(row_hash(k.probe_table[probe_row_index]), k.unused_key)
               found == find(multi_map, k.unused_key, probe_row_hash_value,
                             probe_row_hash_value)
           IN  [cuda_threads[t] EXCEPT
                  !.probe_row_index = probe_row_index,
                  !.probe_row_hash_value = probe_row_hash_value,
                  !.found = found,
                  !.running = (k.JoinKind = "LEFT_JOIN") \/ (map_end(multi_map) # found),
                  !.found_match = FALSE]]
      looping == any_sync(lanes, searched)
  IN  /\ IsOutput
      /\ \A t \in LanesOf(w) : cuda_threads[t].pc = "begin"
      /\ kernel' = [k EXCEPT !.current_idx_shared[w] = 0]
      /\ cuda_threads' =
           [t \in DOMAIN cuda_threads |->
              IF t \in lanes THEN looping[t]
              ELSE IF t \in LanesOf(w)
                THEN [cuda_threads[t] EXCEPT !.pc = "done",
                                             !.probe_row_index = global_thread_index(k, t)]
              ELSE cuda_threads[t]]
      /\ UNCHANGED <<multi_map, error, output_size, visited>>
      /\ UNCHANGED <<evaluator_vars, scan>>

\* The body of the loop up to __syncwarp(activemask) in thread t.
OutputSlot(t) ==
  LET k == kernel
      c == cuda_threads[t]
      w == warp_id(t)
      j == c.probe_row_index
      left == k.JoinKind = "LEFT_JOIN"
      stop == (left /\ map_end(multi_map) = c.found)
                \/ k.unused_key = multi_map[c.found].first
      same == ~stop /\ multi_map[c.found].first = c.probe_row_hash_value
      found == IF stop THEN c.found ELSE next_slot(multi_map, c.found)
      running == ~stop /\ ~(k.unused_key = multi_map[found].first)
  IN  /\ IsOutput
      /\ c.pc = "body"
      /\ c.running
      /\ \E equal \in (IF same THEN check_row_equality(k, j, multi_map[c.found].second)
                       ELSE {FALSE}) :
         LET found_match == c.found_match \/ equal
             none == left /\ ~running /\ ~found_match
             matched == IF equal
                          THEN add_pair_to_cache(k, w, j, multi_map[c.found].second)
                          ELSE [kernel |-> k, outside |-> FALSE]
             cached == IF none
                         THEN add_pair_to_cache(matched.kernel, w, j, JoinNoneValue)
                         ELSE [kernel |-> matched.kernel, outside |-> FALSE]
             pairs == (IF equal THEN <<<<j, multi_map[c.found].second>>>> ELSE <<>>)
                        \o (IF none THEN <<<<j, JoinNoneValue>>>> ELSE <<>>)
         IN  /\ kernel' = cached.kernel
             /\ cuda_threads' =
                  [cuda_threads EXCEPT ![t] =
                     [c EXCEPT !.pc = "sync",
                               !.found = found,
                               !.running = running,
                               !.found_match = found_match,
                               !.pairs = Len(pairs)]]
             /\ visited' = [visited EXCEPT
                              !.added = Counted(@, j, Len(pairs)),
                              !.nones = IF none THEN @ \cup {j} ELSE @,
                              !.pending[w] = @ \o pairs,
                              !.outside = @ \/ matched.outside \/ cached.outside]
      /\ UNCHANGED <<multi_map, error, output_size>>
      /\ UNCHANGED <<evaluator_vars, scan>>

\* The history after the cache of warp w was flushed.
Flushed(w) ==
  LET cached == Cached(kernel, w)
      of(j) == Cardinality({i \in DOMAIN cached : cached[i][1] = j})
  IN  [r \in DOMAIN visited.flushed |->
         IF visited.flushed[r] + of(r) <= capacity(multi_map)
           THEN visited.flushed[r] + of(r)
           ELSE capacity(multi_map) + 1]

\* After __syncwarp(activemask) in warp w: the cache is flushed and its
\* counter cleared by lane 0 if the next iteration does not fit, and the
\* lanes come to the head of the loop.
FlushCheck(w) ==
  LET lanes == ActiveLanesOf(w)
      flush == flush_output_cache(kernel, w)
  IN  /\ IsOutput
      /\ lanes # {}
      /\ \A t \in lanes : cuda_threads[t].pc = "sync"
      /\ IF next_iteration_does_not_fit(kernel.current_idx_shared[w],
                                        kernel.output_cache_size)
           THEN /\ kernel' = [flush.kernel EXCEPT !.current_idx_shared[w] = 0]
                /\ visited' = [visited EXCEPT !.flushed = Flushed(w),
                                              !.pending[w] = <<>>,
                                              !.wrapped = @ \/ flush.wrapped]
           ELSE UNCHANGED <<kernel, visited>>
      /\ cuda_threads' = [t \in DOMAIN cuda_threads |->
                            IF t \in lanes THEN any_sync(lanes, cuda_threads)[t]
                            ELSE cuda_threads[t]]
      /\ UNCHANGED <<multi_map, error, output_size>>
      /\ UNCHANGED <<evaluator_vars, scan>>

\* The final flush of the cache of warp w.
FinalFlush(w) ==
  LET lanes == ActiveLanesOf(w)
      flush == flush_output_cache(kernel, w)
  IN  /\ IsOutput
      /\ lanes # {}
      /\ \A t \in lanes : cuda_threads[t].pc = "final"
      /\ IF kernel.current_idx_shared[w] > 0
           THEN /\ kernel' = flush.kernel
                /\ visited' = [visited EXCEPT !.flushed = Flushed(w),
                                              !.pending[w] = <<>>,
                                              !.wrapped = @ \/ flush.wrapped]
           ELSE UNCHANGED <<kernel, visited>>
      /\ cuda_threads' = [t \in DOMAIN cuda_threads |->
                            IF t \in lanes THEN [cuda_threads[t] EXCEPT !.pc = "done"]
                            ELSE cuda_threads[t]]
      /\ UNCHANGED <<multi_map, error, output_size>>
      /\ UNCHANGED <<evaluator_vars, scan>>

OutputNext ==
  \/ \E w \in Warps(kernel) : OutputRows(w)
  \/ \E t \in DOMAIN cuda_threads : OutputSlot(t)
  \/ \E w \in Warps(kernel) : FlushCheck(w)
  \/ \E w \in Warps(kernel) : FinalFlush(w)

OutputSpec == OutputInit /\ [][OutputNext]_vars

OutputDone == \A t \in DOMAIN cuda_threads : cuda_threads[t].pc = "done"

(***************************************************************************)
(* The two kernels of the probe in sequence, as the host launches them:    *)
(* compute_join_output_size by one thread, then probe_hash_table on the    *)
(* same map and tables.                                                    *)
(***************************************************************************)
PairInit == ProbeInitOf({<<1, 1>>})

\* The launch of probe_hash_table after compute_join_output_size returned.
LaunchProbeHashTable ==
  \E launch \in OutputLaunches, output_cache_size \in OutputCacheSizes :
    LET n == kernel.probe_table_num_rows
        b == Cardinality(DOMAIN kernel.build_table)
        k == probe_hash_table(launch, output_cache_size, kernel.JoinKind, b, n,
                              kernel.unused_key, MaxOutputSize)
    IN  /\ IsProbe
        /\ ProbeDone
        /\ n <= launch[1] * launch[2]
        /\ launch[2] > 1 => n > launch[1] * (launch[2] - 1)
        /\ kernel' = k
        /\ cuda_threads' = [t \in Grid(k) |-> Lane]
        /\ visited' = History(k, visited.rows, visited.counted)
        /\ UNCHANGED <<multi_map, error, output_size>>
        /\ UNCHANGED <<evaluator_vars, scan>>

PairNext == ProbeNext \/ LaunchProbeHashTable \/ OutputNext

PairSpec == PairInit /\ [][PairNext]_vars

(***************************************************************************)
(* Either kernel of the probe under the scheduling of the device: every    *)
(* thread that can take a step, and every warp whose lanes have met at a   *)
(* barrier, eventually goes on.                                            *)
(***************************************************************************)
LoopInit == ProbeInitOf({<<1, 1>>}) \/ OutputInitOf({<<warp_size, 1>>})

LoopNext == ProbeNext \/ OutputNext

\* The threads and warps of the largest launch.
AllThreads == (0 .. 1) \X (0 .. 2 * warp_size - 1)

AllWarps == (0 .. 1) \X (0 .. 1)

CudaThreadStep(t) ==
  /\ t \in DOMAIN cuda_threads
  /\ ProbeRow(t) \/ ProbeSlot(t) \/ OutputSlot(t)

CudaWarpStep(w) ==
  /\ w \in Warps(kernel)
  /\ OutputRows(w) \/ FlushCheck(w) \/ FinalFlush(w)

LoopSpec ==
  /\ LoopInit
  /\ [][LoopNext]_vars
  /\ \A t \in AllThreads : WF_vars(CudaThreadStep(t))
  /\ \A w \in AllWarps : WF_vars(CudaWarpStep(w))
  /\ \A block \in 0 .. 1 : WF_vars(BlockSum(block))

(***************************************************************************)
(* scan_agg_dispatch                                                       *)
(***************************************************************************)
\* Kinds of aggregation, those of the switch and some others.
AggregationKinds ==
  {"SUM", "PRODUCT", "MIN", "MAX", "COUNT_VALID", "ANY", "MEAN", "NTH_ELEMENT",
   "RANK", "DENSE_RANK"}

\* Types of the input column.
TypeIds ==
  {"INT32", "INT64", "FLOAT64", "BOOL8", "TIMESTAMP_DAYS", "DURATION_SECONDS",
   "STRING", "LIST", "DICTIONARY32", "STRUCT", "DECIMAL32", "DECIMAL64", "EMPTY"}

is_numeric(type) == type \in {"INT32", "INT64", "FLOAT64", "BOOL8"}

is_compound(type) == type \in {"STRING", "LIST", "DICTIONARY32", "STRUCT"}

is_fixed_point(type) == type \in {"DECIMAL32", "DECIMAL64"}

\* CUDF_FAIL(message), and a CUDF_EXPECTS that does not hold.
Thrown(message) == [threw |-> message, dispatched |-> <<>>]

\* type_dispatcher<dispatch_storage_type>(input.type(), DispatchFn<Op>(), ...)
Dispatched(type, op) == [threw |-> "", dispatched |-> <<"type_dispatcher", type, op>>]

\* inclusive_rank_scan(input, stream, mr) and inclusive_dense_rank_scan
RankScan(callee) == [threw |-> "", dispatched |-> <<callee>>]

\* A slip: the product scan of a fixed-point column is dispatched.
scan_agg_dispatch_any_product(type, kind) ==
  IF kind \notin {"RANK", "DENSE_RANK"}
     /\ ~(is_numeric(type) \/ is_compound(type) \/ is_fixed_point(type))
    THEN Thrown("Unexpected non-numeric or non-string type.")
  ELSE CASE kind = "SUM" -> Dispatched(type, "DeviceSum")
         [] kind = "MIN" -> Dispatched(type, "DeviceMin")
         [] kind = "MAX" -> Dispatched(type, "DeviceMax")
         [] kind = "PRODUCT" -> Dispatched(type, "DeviceProduct")
         [] kind = "RANK" -> RankScan("inclusive_rank_scan")
         [] kind = "DENSE_RANK" -> RankScan("inclusive_dense_rank_scan")
         [] OTHER -> Thrown("Unsupported aggregation operator for scan")

\* scan_agg_dispatch<DispatchFn>(input, agg, null_handling, stream, mr)
scan_agg_dispatch(type, kind) ==
  IF kind \notin {"RANK", "DENSE_RANK"}
     /\ ~(is_numeric(type) \/ is_compound(type) \/ is_fixed_point(type))
    THEN Thrown("Unexpected non-numeric or non-string type.")
  ELSE CASE kind = "SUM" -> Dispatched(type, "DeviceSum")
         [] kind = "MIN" -> Dispatched(type, "DeviceMin")
         [] kind = "MAX" -> Dispatched(type, "DeviceMax")
         [] kind = "PRODUCT" ->
              IF is_fixed_point(type) THEN Thrown("decimal32/64 cannot support product scan")
              ELSE Dispatched(type, "DeviceProduct")
         [] kind = "RANK" -> RankScan("inclusive_rank_scan")
         [] kind = "DENSE_RANK" -> RankScan("inclusive_dense_rank_scan")
         [] OTHER -> Thrown("Unsupported aggregation operator for scan")

NotReturned == [threw |-> "", dispatched |-> <<>>]

\* The call of scan_agg_dispatch with an input column and an aggregation.
ScanInit ==
  \E type \in TypeIds, kind \in AggregationKinds, null_handling \in {"EXCLUDE", "INCLUDE"} :
    /\ NoEvaluator
    /\ NoKernel
    /\ scan = [input |-> type, agg |-> kind, null_handling |-> null_handling,
               called |-> FALSE, result |-> NotReturned]

\* The body of scan_agg_dispatch.
ScanAggDispatch ==
  /\ scan # <<>>
  /\ ~scan.called
  /\ scan' = [scan EXCEPT !.called = TRUE, !.result = scan_agg_dispatch(scan.input, scan.agg)]
  /\ UNCHANGED <<evaluator_vars, join_vars>>

ScanNext == ScanAggDispatch

ScanSpec == ScanInit /\ [][ScanNext]_vars

(***************************************************************************)
(* The result containers on their own: a sequence of set_value calls with  *)
(* arbitrary element types, indices and results on a container in an       *)
(* arbitrary state.  evaluator holds has_nulls only, last the call made    *)
(* last and the container before it.                                       *)
(***************************************************************************)
MaxSetValueCalls == 2

ElementTypes == {"INT32", "BOOL"}

\* The values a possibly_null_value_t<Element, has_nulls> can hold.
Results(has_nulls) ==
  {Some(v) : v \in 1 .. 2} \cup (IF has_nulls THEN {Null} ELSE {})

\* A value_expression_result<T> holding _obj.
TypedValueSink(T, obj) ==
  [kind |-> "value", T |-> T, _obj |-> obj, set_value_calls |-> <<>>]

\* A mutable_column_expression_result over a column with the given null mask.
MaskedColumnSink(mask) ==
  [kind |-> "column", data |-> [r \in Rows |-> 0], valid |-> mask,
   set_value_calls |-> <<>>]

NoCall == [Element |-> "NONE", index |-> 0, result |-> Null, before |-> <<>>]

SinkInit ==
  \E has_nulls \in BOOLEAN :
    /\ evaluator = [has_nulls |-> has_nulls]
    /\ output_object \in {TypedValueSink(T, obj) : T \in ElementTypes, obj \in Results(has_nulls)}
                           \cup {MaskedColumnSink(mask) : mask \in Masks}
    /\ at_entry = [output_object |-> output_object]
    /\ last = NoCall
    /\ assertions = <<>>
    /\ left_row_index = 0
    /\ right_row_index = 0
    /\ output_row_index = 0
    /\ operator_index = 0
    /\ operator_source_index = 0
    /\ executed = <<>>
    /\ last_write = <<>>
    /\ threads = <<>>
    /\ intermediate_storage = <<>>
    /\ NoKernel
    /\ NoScan

\* One call of set_value<Element>(index, result) on the container.
SetValue ==
  /\ ~Aborted
  /\ Len(output_object.set_value_calls) < MaxSetValueCalls
  /\ \E Element \in ElementTypes, index \in Rows, result \in Results(evaluator.has_nulls) :
       LET o == IF output_object.kind = "value"
                THEN value_expression_result_set_value(output_object, Element, index, result)
                ELSE [output_object |-> column_set_value(output_object, index, result,
                                                         evaluator.has_nulls),
                      asserts |-> <<>>]
       IN /\ output_object' = [o.output_object EXCEPT !.set_value_calls =
                                  Append(@, [index |-> index, result |-> result])]
          /\ assertions' = o.asserts
          /\ last' = [Element |-> Element, index |-> index, result |-> result,
                      before |-> output_object]
  /\ UNCHANGED <<evaluator, left_row_index, right_row_index, output_row_index,
                 operator_index, operator_source_index, executed, last_write, at_entry,
                 threads, intermediate_storage>>
  /\ UNCHANGED <<join_vars, scan>>

SinkNext == SetValue

SinkSpec == SinkInit /\ [][SinkNext]_vars

(***************************************************************************)
(* Properties.                                                             *)
(***************************************************************************)
Calls == output_object.set_value_calls

PlanOrder(n) == [i \in 1 .. n |-> i - 1]

\* The latest step executed an operator.
Stepped == last.operator_index >= 0

\* The result of the latest operator is what its output reference now holds.
Handed ==
  IF last.output.reference_type = "COLUMN"
  THEN /\ Len(Calls) >= 1
       /\ Calls[Len(Calls)].result = last.result
  ELSE evaluator.thread_intermediate_storage[last.output.data_index] = last.result

SomeAbsent == \E j \in DOMAIN last.inputs : ~last.inputs[j].has_value
AllAbsent == \A j \in DOMAIN last.inputs : ~last.inputs[j].has_value
AllPresent == \A j \in DOMAIN last.inputs : last.inputs[j].has_value

Applied ==
  IF Len(last.inputs) = 1
  THEN unary_operator_functor(last.op, last.inputs[1].value)
  ELSE binary_operator_functor(last.op, last.inputs[1].value, last.inputs[2].value)

\* The loop of evaluate ends in every run that is not suspended.
Terminates == <>Done

\* The loop can make its next iteration.
CanStep ==
  /\ ~Aborted
  /\ operator_index < NumOperators(evaluator.plan)
  /\ evaluate_operator(evaluator, output_object, operator_index, operator_source_index,
                       left_row_index, right_row_index, output_row_index) # {}

WellFormedPlans == {plan \in Plans : WellFormed(plan)}

\* C1: for a well-formed plan and any row triple, evaluate terminates having
\* executed every operator of the plan exactly once (after k steps it has
\* executed operators 0 .. k-1, k never exceeds the number of operators, and a
\* step is possible until the loop is done), and it makes exactly one set_value
\* call on the sink, at output_row_index: none before the last operator, one
\* once it is done.
C1_EvaluateOnce ==
  /\ executed = PlanOrder(operator_index)
  /\ operator_index <= NumOperators(evaluator.plan)
  /\ Done \/ CanStep
  /\ evaluator.plan \in WellFormedPlans =>
       /\ Len(Calls) <= 1
       /\ Done => /\ Len(Calls) = 1
                  /\ Calls[1].index = output_row_index
                  /\ Calls[1].result = last.result

C1_Witness ==
  /\ Done
  /\ evaluator.plan = PlanF
  /\ output_object.kind = "value"
  /\ output_row_index = 1
  /\ executed = <<0, 1, 2>>
  /\ Len(Calls) = 1

\* C2: with has_nulls, a unary operator or a binary operator other than EQUAL
\* hands an absent result to the output handler, without applying the functor,
\* when any operand is absent; with all operands present it hands the functor
\* applied to the operand values, as a present result.
C2_NullPropagation ==
  (Stepped /\ evaluator.has_nulls /\ last.op # "EQUAL") =>
    /\ Handed
    /\ IF SomeAbsent
       THEN ~last.result.has_value /\ ~last.applied
       ELSE last.result = Some(Applied) /\ last.applied

C2_Witness ==
  /\ evaluator.has_nulls
  /\ last.op = "MUL"
  /\ ~last.inputs[1].has_value
  /\ last.inputs[2].has_value
  /\ ~last.result.has_value
  /\ ~last.applied

\* C3: with has_nulls, EQUAL of two absent operands is a present result, true
\* under null_equality EQUAL and false under UNEQUAL; EQUAL of two present
\* operands is the present result lhs == rhs.
C3_EqualityOnNulls ==
  (Stepped /\ evaluator.has_nulls /\ last.op = "EQUAL") =>
    /\ AllAbsent =>
         /\ Handed
         /\ last.result = Some(Bool(evaluator.compare_nulls = "EQUAL"))
    /\ AllPresent =>
         /\ Handed
         /\ last.result = Some(Bool(last.inputs[1].value = last.inputs[2].value))

C3_Witness ==
  /\ evaluator.has_nulls
  /\ last.op = "EQUAL"
  /\ AllAbsent
  /\ evaluator.compare_nulls = "UNEQUAL"
  /\ last.result = Some(0)
  /\ Done

\* C4: with has_nulls, EQUAL of one absent and one present operand is an
\* absent result, under either null-equality policy.
C4_EqualityOneNull ==
  (Stepped /\ evaluator.has_nulls /\ last.op = "EQUAL" /\ SomeAbsent /\ ~AllAbsent) =>
    /\ Handed
    /\ ~last.result.has_value

C4_Witness ==
  /\ evaluator.has_nulls
  /\ last.op = "EQUAL"
  /\ ~last.inputs[1].has_value
  /\ last.inputs[2].has_value
  /\ evaluator.compare_nulls = "EQUAL"
  /\ ~last.result.has_value

\* The table and the row that a COLUMN reference names.
NamedSource(ref) == IF ref.table_source = "LEFT" THEN "left" ELSE "right"
NamedTable(ref) == IF ref.table_source = "LEFT" THEN evaluator.left ELSE evaluator.right
NamedRow(ref) == IF ref.table_source = "LEFT" THEN left_row_index ELSE right_row_index

\* The element of the named column at the named row, absent when has_nulls and
\* the row is null.
NamedValue(ref) ==
  IF evaluator.has_nulls /\ ~NamedTable(ref)[ref.data_index].valid[NamedRow(ref)]
  THEN Null
  ELSE Some(NamedTable(ref)[ref.data_index].data[NamedRow(ref)])

\* Operand j of the latest operator, a COLUMN reference, was read from the
\* named table at the named row and nowhere else.
ReadAsNamed(j) ==
  LET ref == last.input_refs[j]
  IN /\ last.inputs[j] = NamedValue(ref)
     /\ \A r \in last.reads :
          (r.source \in {"left", "right"} /\ r.source = NamedSource(ref)) =>
            r.index = ref.data_index /\ r.row = NamedRow(ref)
     /\ \E r \in last.reads :
          r = Read(NamedSource(ref), ref.data_index, NamedRow(ref),
                   IF last.inputs[j].has_value THEN "element" ELSE "is_valid")

TableReads == {r \in last.reads : r.source \in {"left", "right"}}

\* C5: a unary operator over a COLUMN reference reads the operand from the
\* table its table_source names, at that table's row index (LEFT: left at
\* left_row_index, RIGHT: right at right_row_index), from no other table or
\* row, and the read has one defined outcome.
C5_UnaryReadsNamedRow ==
  (Stepped /\ Len(last.inputs) = 1 /\ last.input_refs[1].reference_type = "COLUMN") =>
    /\ ReadAsNamed(1)
    /\ \A r \in TableReads : r.source = NamedSource(last.input_refs[1])

\* C6: each COLUMN operand of a binary operator is read from its own table at
\* its own row (LEFT: left at left_row_index, RIGHT: right at right_row_index),
\* no table is read at another row, the result goes to output_row_index, and
\* out = L.x - R.y writes L.x[left_row_index] - R.y[right_row_index] there.
C6_BinaryOperandsIndependent ==
  /\ (Stepped /\ Len(last.inputs) = 2) =>
       /\ \A j \in 1 .. 2 :
            last.input_refs[j].reference_type = "COLUMN" => ReadAsNamed(j)
       /\ \A r \in TableReads :
            \E j \in 1 .. 2 : /\ last.input_refs[j].reference_type = "COLUMN"
                              /\ r.source = NamedSource(last.input_refs[j])
       /\ last.output.reference_type = "COLUMN" =>
            Calls[Len(Calls)].index = output_row_index
  /\ (Done /\ evaluator.plan = PlanE /\ output_object.kind = "column"
        /\ last.result.has_value) =>
       /\ output_object.data[output_row_index] =
            LeftData[left_row_index] - RightData[right_row_index]
       /\ \A r \in Rows \ {output_row_index} :
            output_object.data[r] = at_entry.output_object.data[r]

C6_Witness ==
  /\ Done
  /\ evaluator.plan = PlanE
  /\ output_object.kind = "column"
  /\ left_row_index = 1 /\ right_row_index = 0 /\ output_row_index = 0
  /\ output_object.data[0] = LeftData[1] - RightData[0]
  /\ output_object.data[1] = at_entry.output_object.data[1]

\* C7: an operand read from intermediate slot s is exactly the value and
\* validity stored by the latest earlier operator of this evaluation whose
\* output was slot s; the chain t0 = a + b, t1 = t0 * a, out = t1 - b yields
\* (a + b) * a - b.
C7_IntermediateReadSeesLastWrite ==
  /\ Stepped =>
       \A j \in DOMAIN last.inputs :
         (/\ last.input_refs[j].reference_type = "INTERMEDIATE"
          /\ last.prior_write[last.input_refs[j].data_index].written) =>
           last.inputs[j] = last.prior_write[last.input_refs[j].data_index].value
  /\ (Done /\ evaluator.plan = PlanF /\ last.result.has_value) =>
       last.result.value =
         (LeftData[left_row_index] + RightData[right_row_index])
           * LeftData[left_row_index] - RightData[right_row_index]

C7_Witness ==
  /\ evaluator.plan = PlanReuse
  /\ last.operator_index = 2
  /\ last.input_refs[1] = Ref("INTERMEDIATE", 0, "LEFT")
  /\ last.prior_write[0].written
  /\ last.inputs[1] = Some(LeftData[left_row_index] + RightData[right_row_index])

\* C8: operators run in plan order and the operand-index stream is consumed in
\* order: operator k starts at c_k = sum over j < k of (arity_j + 1), takes its
\* arity_k input references and then its output reference from there, and the
\* cursor ends at the length of the stream.
C8_StreamInOrder ==
  /\ executed = PlanOrder(operator_index)
  /\ operator_source_index = SourceStart(evaluator.plan, operator_index)
  /\ Stepped =>
       /\ last.operator_index = operator_index - 1
       /\ last.op = Seq0(evaluator.plan.operators, last.operator_index)
       /\ last.cursor = SourceStart(evaluator.plan, last.operator_index)
       /\ last.input_refs = InputRefs(evaluator.plan, last.operator_index)
       /\ last.output = OutputRef(evaluator.plan, last.operator_index)
  /\ Done => operator_source_index = Len(evaluator.plan.operator_source_indices)

C8_Witness ==
  /\ Done
  /\ evaluator.plan = PlanReuse
  /\ executed = <<0, 1, 2>>
  /\ last.cursor = 5
  /\ operator_source_index = 7

\* The evaluations of the plan that start as this one did, with other null
\* masks on the tables or other contents of the intermediate storage.
Rerun(lm, rm, storage) ==
  evaluate([evaluator EXCEPT !.left = Table(LeftData, lm),
                             !.right = Table(RightData, rm),
                             !.thread_intermediate_storage = storage],
           at_entry.output_object, 0, 0,
           left_row_index, right_row_index, output_row_index)

\* C9: with has_nulls = false no validity bit of an input column is
\* inspected: an evaluation of the same plan on tables with the same element
\* data and any other null masks writes the same values to the sink.
C9_MasksNotInspected ==
  ~evaluator.has_nulls =>
    /\ \A r \in last.reads : r.kind # "is_valid"
    /\ Done =>
         \A lm \in Masks, rm \in Masks :
           \A f \in Rerun(lm, rm, at_entry.thread_intermediate_storage) :
             f.output_object = output_object

\* C10: evaluation is deterministic, and for a plan that writes every
\* intermediate slot before reading it the sink does not depend on what the
\* intermediate storage held at the start of the row.
C10_Deterministic ==
  Done =>
    /\ \A f \in Rerun(evaluator.left[0].valid, evaluator.right[0].valid,
                      at_entry.thread_intermediate_storage) :
         f.output_object = output_object
    /\ WrittenBeforeRead(evaluator.plan) =>
         \A storage \in [Slots -> Uninitialised(evaluator.has_nulls)] :
           \A f \in Rerun(evaluator.left[0].valid, evaluator.right[0].valid, storage) :
             f.output_object = output_object

(***************************************************************************)
(* The result containers and the resolver, call by call.                   *)
(***************************************************************************)
\* The step made a set_value call on the sink.
SetValueCalled == Len(output_object'.set_value_calls) = Len(output_object.set_value_calls) + 1

\* The set_value call of the step.
TheCall == output_object'.set_value_calls[Len(output_object'.set_value_calls)]

ColumnSetValueFrame ==
  SetValueCalled /\ output_object.kind = "column" =>
    LET i == TheCall.index
        v == TheCall.result
    IN /\ \A j \in Rows \ {i} :
            /\ output_object'.data[j] = output_object.data[j]
            /\ output_object'.valid[j] = output_object.valid[j]
       /\ v.has_value => output_object'.data[i] = v.value /\ output_object'.valid[i]
       /\ ~v.has_value => ~output_object'.valid[i]
       /\ output_object'._obj = output_object._obj

ValueSetValueStores ==
  SetValueCalled /\ output_object.kind = "value" =>
    LET v == TheCall.result
    IN /\ \A i \in Rows :
            value_set_value(output_object, i, v)._obj = output_object'._obj
       /\ \A i, j \in Rows :
            value_set_value(output_object, i, v) = value_set_value(output_object, j, v)
       /\ value_is_valid(output_object', evaluator.has_nulls) =
            (v.has_value \/ ~evaluator.has_nulls)
       /\ v.has_value => value_value(output_object', evaluator.has_nulls) = v.value

\* C13: value_expression_result::set_value(i, v) stores v whatever the index
\* i; afterwards is_valid() tells whether v is present (always true without
\* nulls) and value() is the value of a present v.
C13_ValueSetValue == [][ValueSetValueStores]_vars

\* A scalar sink was written through a row index other than 0, once with an
\* absent value.
C13_Witness ==
  /\ output_object.kind = "value" /\ evaluator.has_nulls /\ Calls # <<>>
  /\ Calls[Len(Calls)].index # 0
  /\ ~Calls[Len(Calls)].result.has_value
  /\ ~value_is_valid(output_object, evaluator.has_nulls)

\* What resolve_input is to return for a COLUMN reference and supplied rows.
ColumnValueAt(ev, ref, l, r) ==
  LET table == IF ref.table_source = "LEFT" THEN ev.left ELSE ev.right
      row == IF ref.table_source = "LEFT" THEN l ELSE r
  IN IF table[ref.data_index].valid[row]
     THEN Some(table[ref.data_index].data[row])
     ELSE Null

ColumnRefs(plan) ==
  {plan.data_references[i] : i \in {n \in DOMAIN plan.data_references :
                                      plan.data_references[n].reference_type = "COLUMN"}}

\* C14: with has_nulls, resolve_input on a COLUMN reference returns the
\* absent value exactly when the column of the table named by table_source
\* is null at the selected row, and otherwise the element at that row.
\* Every COLUMN reference of the plan is resolved at the row indices of the
\* evaluation, which range over all pairs of rows.
C14_ColumnNullResolved ==
  evaluator.has_nulls =>
    /\ \A ref \in ColumnRefs(evaluator.plan) :
         \A x \in resolve_input(evaluator, ref, left_row_index, Some(right_row_index)) :
           /\ x.result = ColumnValueAt(evaluator, ref, left_row_index, right_row_index)
           /\ \A read \in x.reads :
                /\ read.source = (IF ref.table_source = "LEFT" THEN "left" ELSE "right")
                /\ read.index = ref.data_index
                /\ read.row = (IF ref.table_source = "LEFT" THEN left_row_index
                               ELSE right_row_index)
    /\ Stepped /\ Len(last.input_refs) = 2 /\ last.asserts = <<>> =>
         \A j \in 1 .. 2 :
           last.input_refs[j].reference_type = "COLUMN" =>
             last.inputs[j] = ColumnValueAt(evaluator, last.input_refs[j],
                                            left_row_index, right_row_index)

\* A binary operator resolved one column operand as null and one as present.
C14_Witness ==
  /\ evaluator.has_nulls /\ Stepped /\ Len(last.input_refs) = 2
  /\ last.input_refs[1].reference_type = "COLUMN"
  /\ last.input_refs[2].reference_type = "COLUMN"
  /\ last.input_refs[2].table_source = "RIGHT"
  /\ last.inputs[1].has_value
  /\ ~last.inputs[2].has_value

(***************************************************************************)
(* Literals and programmer errors (EdgeSpec).                              *)
(***************************************************************************)
\* What the plan fixes for a literal: its value, absent for a null literal
\* when nulls are evaluated.
LiteralValue(ref) ==
  LET literal == Seq0(evaluator.plan.literals, ref.data_index)
  IN IF evaluator.has_nulls /\ ~literal.is_valid THEN Null ELSE Some(literal.value)

\* C15: resolve_input on a LITERAL reference returns element data_index of
\* the literal array with the validity the plan fixes for it (a null literal
\* is absent under has_nulls), whatever the row indices and table_source.
C15_LiteralValidity ==
  Stepped /\ ~Aborted =>
    \A j \in DOMAIN last.input_refs :
      last.input_refs[j].reference_type = "LITERAL" =>
        /\ last.inputs[j] = LiteralValue(last.input_refs[j])
        /\ Read("literals", last.input_refs[j].data_index, 0, "element") \in last.reads

\* The operator about to run and the type its operands are resolved as.
NextOp == Seq0(evaluator.plan.operators, operator_index)
NextInputs == InputRefs(evaluator.plan, operator_index)
NextOutput == OutputRef(evaluator.plan, operator_index)
NextType == NextInputs[1].data_type

InvalidCombination ==
  IF ast_operator_arity(NextOp) = 1
  THEN ~is_valid_unary_op(NextOp, NextType)
  ELSE ~is_valid_binary_op(NextOp, NextType, NextType)

WritesNothing ==
  /\ output_object' = output_object
  /\ evaluator'.thread_intermediate_storage = evaluator.thread_intermediate_storage

InvalidDispatchAsserts ==
  has_element_accessor(NextType) /\ InvalidCombination =>
    /\ assertions' \in
         {<<"Invalid unary dispatch operator for the provided input.">>,
          <<"Invalid binary dispatch operator for the provided input.">>}
    /\ WritesNothing

\* C17: an operator dispatched with an (operator, operand type) combination
\* that is_valid_unary_op / is_valid_binary_op rejects raises a device-side
\* assertion and writes nothing to the sink or to intermediate storage.
C17_InvalidDispatch == [][InvalidDispatchAsserts]_vars

\* The second operator of a plan was an invalid combination: the thread is
\* aborted and slot 0 holds what the first operator wrote.
C17_Witness ==
  /\ assertions = <<"Invalid unary dispatch operator for the provided input.">>
  /\ last.operator_index = 1
  /\ last.output.reference_type = "INTERMEDIATE"
  /\ last_write[0].written
  /\ evaluator.thread_intermediate_storage[0] = last_write[0].value
  /\ Calls = <<>>

OutputSourced(j) ==
  /\ last.input_refs[j].reference_type = "COLUMN"
  /\ last.input_refs[j].table_source = "OUTPUT"

\* C18 as stated: resolving an input COLUMN reference whose table_source is
\* OUTPUT raises an assertion that aborts the thread, and no table element
\* is read for it.
C18_OutputSourceAsserts ==
  Stepped =>
    \A j \in DOMAIN last.input_refs :
      OutputSourced(j) =>
        /\ Aborted
        /\ \A r \in TableReads : r.source # "right"

\* C18, amended: an input COLUMN reference whose table_source is OUTPUT is
\* not checked; it is resolved as a RIGHT reference, reading column
\* data_index of the right table (at the right row index in a binary
\* operator), and no assertion is raised.
C18_OutputSourceReadsRight ==
  Stepped =>
    \A j \in DOMAIN last.input_refs :
      OutputSourced(j) =>
        /\ ~Aborted
        /\ \E r \in TableReads :
             r.source = "right" /\ r.index = last.input_refs[j].data_index
        /\ \A r \in TableReads :
             r.source = "right" => r.index = last.input_refs[j].data_index
        /\ Len(last.input_refs) = 2 =>
             /\ evaluator.has_nulls =>
                  last.inputs[j] = ColumnValueAt(evaluator, last.input_refs[j],
                                                 left_row_index, right_row_index)
             /\ ~evaluator.has_nulls =>
                  last.inputs[j] = Some(evaluator.right[0].data[right_row_index])

\* out = a + o ran to its end with o read from the right table.
C18_Witness ==
  /\ Done /\ ~Aborted /\ Len(last.input_refs) = 2
  /\ OutputSourced(2)
  /\ last.inputs[2].has_value
  /\ last.applied
  /\ Len(Calls) = 1

WideIntermediateAsserts ==
  /\ has_element_accessor(NextType) /\ ~InvalidCombination
  /\ ~is_rep_layout_compatible(result_type(NextOp, NextType))
  /\ NextOutput.reference_type = "INTERMEDIATE"
  => /\ assertions' = <<"Invalid type in resolve_output.">>
     /\ evaluator'.thread_intermediate_storage = evaluator.thread_intermediate_storage

\* C19: a result whose type is not layout compatible with an intermediate
\* slot, written to an INTERMEDIATE output reference, raises a device-side
\* assertion and leaves the intermediate storage unchanged.
C19_WideIntermediate == [][WideIntermediateAsserts]_vars

\* t1 = IDENTITY(s) asserted after t0 had been written: slot 0 holds what
\* was written and slot 1 what it held at entry.
C19_Witness ==
  /\ assertions = <<"Invalid type in resolve_output.">>
  /\ last.operator_index = 1
  /\ last.output.reference_type = "INTERMEDIATE"
  /\ last.output.data_index = 1
  /\ evaluator.thread_intermediate_storage[1] = at_entry.thread_intermediate_storage[1]
  /\ last_write[0].written
  /\ evaluator.thread_intermediate_storage[0] = last_write[0].value

NoAccessorAsserts ==
  ~has_element_accessor(NextType) =>
    /\ assertions' = <<"Unsupported type in resolve_input.">>
    /\ last'.reads = {}
    /\ WritesNothing
    /\ operator_index' = operator_index

\* C20: resolve_input dispatched for an element type without an on-device
\* element accessor raises a device-side assertion that aborts the thread;
\* it reads no table, literal or intermediate slot and no result of the
\* operator reaches the sink.
C20_NoAccessor == [][NoAccessorAsserts]_vars

\* out = (l == a) asserted in its second operator: nothing was read for it
\* and the sink was never written.
C20_Witness ==
  /\ assertions = <<"Unsupported type in resolve_input.">>
  /\ last.operator_index = 1
  /\ Len(last.input_refs) = 2
  /\ last.reads = {}
  /\ Calls = <<>>
  /\ ~Done

(***************************************************************************)
(* Rows evaluated in parallel (ParallelSpec).                              *)
(***************************************************************************)
AllDone == \A t \in Threads : threads[t].operator_index = NumOperators(evaluator.plan)

\* The (index, value, validity) entries of a column sink.
Entries(sink) == [r \in Rows |-> [value |-> sink.data[r], valid |-> sink.valid[r]]]

Orders == {order \in [1 .. NumRows -> Rows] : \A i, j \in 1 .. NumRows : order[i] = order[j] => i = j}

\* The sinks that evaluating the rows one after another, in the given order,
\* can end with.
RECURSIVE Sequential(_, _)
Sequential(sink, order) ==
  IF order = <<>> THEN {sink}
  ELSE UNION {Sequential(f.output_object, Tail(order)) :
                f \in evaluate([evaluator EXCEPT !.thread_intermediate_storage =
                                                    at_entry.thread_intermediate_storage],
                               sink, 0, 0, Head(order), Head(order), Head(order))}

ThreadFrame ==
  \E t \in Threads :
    /\ \A other \in Threads \ {t} :
         /\ threads'[other] = threads[other]
         /\ thread_intermediate_storage(intermediate_storage', other) =
              thread_intermediate_storage(intermediate_storage, other)
         /\ output_object'.data[other] = output_object.data[other]
         /\ output_object'.valid[other] = output_object.valid[other]

SequentialOutcome ==
  AllDone =>
    \A order \in Orders :
      Entries(output_object) \in {Entries(f) : f \in Sequential(at_entry.output_object, order)}

\* C11: threads that evaluate the same plan into one column sink, each with
\* its own slice of intermediate storage and its own output row, end in
\* every interleaving with entries that evaluating the rows one after
\* another, in any order, ends with; and a step of one thread changes no
\* output row and no intermediate slot of another thread.
C11_RowsIndependent == []SequentialOutcome /\ [][ThreadFrame]_vars

\* Two threads of a plan with intermediates have interleaved their steps
\* and both are done.
C11_Witness ==
  /\ threads # <<>> /\ AllDone
  /\ NumOperators(evaluator.plan) = 3
  /\ \E i, j \in 1 .. Len(output_object.set_value_calls) :
       i < j /\ output_object.set_value_calls[i].index > output_object.set_value_calls[j].index
  /\ \E r \in Rows : output_object.valid[r]
  /\ \E r \in Rows : ~output_object.valid[r]

DataTypes == {"INT32", "BOOL", "STRING", "LIST"}

\* The binary operator about to run, on the operand references as the plan
\* gives them but for the data_type of the right one.
BinaryWithRhsType(type) ==
  evaluate_binary(evaluator, output_object, left_row_index, right_row_index,
                  NextInputs[1], [NextInputs[2] EXCEPT !.data_type = type],
                  NextOutput, output_row_index, NextOp)

LastType == last.input_refs[1].data_type

\* C21: a binary operator resolves both operands, and is instantiated, with
\* the data_type T of its left operand reference alone: whatever data_type
\* the right operand reference carries the evaluation is the same, and it
\* asserts or applies the functor as (T, T) does.
C21_SingleTypeDispatch ==
  /\ ~Aborted /\ operator_index < NumOperators(evaluator.plan)
     /\ ast_operator_arity(NextOp) = 2
     => \A type \in DataTypes : BinaryWithRhsType(type) = BinaryWithRhsType(NextType)
  /\ Stepped /\ Len(last.input_refs) = 2 =>
       /\ Aborted <=>
            ~(/\ has_element_accessor(LastType)
              /\ is_valid_binary_op(last.op, LastType, LastType)
              /\ is_rep_layout_compatible(result_type(last.op, LastType)))
       /\ ~Aborted => Len(last.inputs) = 2

\* out = a + s, with a an INT32 column and s a string column, was evaluated
\* as INT32 + INT32 and written to the sink.
C21_Witness ==
  /\ Done /\ ~Aborted /\ Len(last.input_refs) = 2
  /\ last.input_refs[1].data_type = "INT32"
  /\ last.input_refs[2].data_type = "STRING"
  /\ last.op = "ADD" /\ last.applied
  /\ Len(Calls) = 1

\* The evaluator as it was when evaluate was called.
EvaluatorAtEntry ==
  [evaluator EXCEPT !.thread_intermediate_storage = at_entry.thread_intermediate_storage]

\* C22: evaluate(sink, row_index) ends with the sink and the intermediate
\* storage that evaluate(sink, row_index, row_index, row_index) ends with.
C22_SingleIndex ==
  left_row_index = right_row_index /\ right_row_index = output_row_index =>
    /\ ~Stepped =>
         evaluate_row_index(EvaluatorAtEntry, at_entry.output_object, left_row_index) =
           evaluate(EvaluatorAtEntry, at_entry.output_object, 0, 0,
                    left_row_index, right_row_index, output_row_index)
    /\ Done =>
         [output_object |-> output_object,
          thread_intermediate_storage |-> evaluator.thread_intermediate_storage]
           \in evaluate_row_index(EvaluatorAtEntry, at_entry.output_object, left_row_index)

\* A plan over both tables with intermediates ran to its end at row 1 of
\* the left table, the right table and the output.
C22_Witness ==
  /\ Done /\ evaluator.plan = PlanF
  /\ left_row_index = 1 /\ right_row_index = 1 /\ output_row_index = 1
  /\ Len(Calls) = 1 /\ Calls[1].index = 1
  /\ [output_object |-> output_object,
      thread_intermediate_storage |-> evaluator.thread_intermediate_storage]
       \in evaluate_row_index(EvaluatorAtEntry, at_entry.output_object, 1)

\* What resolve_input may return for the reference with the given table_source.
ResolvedFrom(ref, table_source) ==
  {x.result : x \in resolve_input(evaluator, [ref EXCEPT !.table_source = table_source],
                                  left_row_index, Some(right_row_index))}

\* C23: an evaluator constructed from a single table has that table as left
\* and as right: with equal left and right row indices a COLUMN reference
\* with table_source RIGHT resolves to what the same reference with
\* table_source LEFT resolves to.
C23_OneTable ==
  /\ evaluator.left = evaluator.right
  /\ left_row_index = right_row_index =>
       /\ \A ref \in ColumnRefs(evaluator.plan) :
            ResolvedFrom(ref, "RIGHT") = ResolvedFrom(ref, "LEFT")
       /\ /\ Stepped /\ Len(last.input_refs) = 2
          /\ last.input_refs[1] = [last.input_refs[2] EXCEPT !.table_source = "LEFT"]
          /\ last.input_refs[2].reference_type = "COLUMN"
          => last.inputs[1] = last.inputs[2]

\* a == b ran on one table at equal row indices: both operands are the
\* null element of that row.
C23_Witness ==
  /\ evaluator.left = evaluator.right /\ evaluator.has_nulls
  /\ Done /\ evaluator.plan = PlanC
  /\ left_row_index = right_row_index
  /\ last.input_refs[2].table_source = "RIGHT"
  /\ ~last.inputs[1].has_value /\ ~last.inputs[2].has_value
  /\ \E r \in Rows : evaluator.left[0].valid[r]

ReadOnlyMembers ==
  /\ evaluator'.left = evaluator.left
  /\ evaluator'.right = evaluator.right
  /\ evaluator'.plan.literals = evaluator.plan.literals
  /\ evaluator'.plan.data_references = evaluator.plan.data_references
  /\ evaluator'.plan.operators = evaluator.plan.operators
  /\ evaluator'.plan.operator_source_indices = evaluator.plan.operator_source_indices
  /\ evaluator'.compare_nulls = evaluator.compare_nulls
  /\ evaluator'.has_nulls = evaluator.has_nulls

\* C24: no step of evaluate modifies the left table, the right table, the
\* plan's literals, data references, operators or operand-index stream, or
\* the null-equality policy; it changes the sink and the thread's
\* intermediate storage only.
C24_InputsReadOnly == [][ReadOnlyMembers]_vars

\* A plan with intermediates ran to its end: the sink and the intermediate
\* storage are no longer what they were at entry.
C24_Witness ==
  /\ Done /\ evaluator.plan = PlanF
  /\ output_object.kind = "column"
  /\ output_object.data # at_entry.output_object.data
  /\ evaluator.thread_intermediate_storage # at_entry.thread_intermediate_storage
  /\ last_write[0].written /\ last_write[1].written

\* C25: out = x + 0 evaluated for every row of the integer column x equals
\* x at every valid row, and with has_nulls every null row of x is null in
\* the output.
C25_AddZero ==
  threads # <<>> /\ AllDone /\ evaluator.plan = PlanZero =>
    \A r \in Rows :
      /\ evaluator.left[0].valid[r] =>
           /\ output_object.data[r] = evaluator.left[0].data[r]
           /\ output_object.valid[r]
      /\ evaluator.has_nulls /\ ~evaluator.left[0].valid[r] => ~output_object.valid[r]

\* x + 0 has run for every row of a column with a null row and a valid row.
C25_Witness ==
  /\ threads # <<>> /\ AllDone /\ evaluator.plan = PlanZero /\ evaluator.has_nulls
  /\ \E r \in Rows : evaluator.left[0].valid[r] /\ output_object.data[r] = LeftData[r]
  /\ \E r \in Rows : ~evaluator.left[0].valid[r] /\ ~output_object.valid[r]
  /\ Len(output_object.set_value_calls) = NumRows

IsBuild == kernel # <<>> /\ kernel.name = "build_hash_table"

\* The map has a slot holding the unused key: the probing loops end.
HasUnusedSlot == \E s \in DOMAIN multi_map : multi_map[s].first = kernel.unused_key

\* What the probing loop adds for probe row j: the entries met from the slot
\* of the row's hash value up to the first unused slot whose key is the hash
\* value and whose build row equals the probe row.
Matches(j) ==
  LET k == kernel
      h == remap_sentinel_hash(row_hash(k.probe_table[j]), k.unused_key)
      sequence == ProbeSequence(multi_map, h)
      unused == {n \in DOMAIN sequence : multi_map[sequence[n]].first = k.unused_key}
      run == {n \in DOMAIN sequence : \A m \in unused : n < m}
  IN  Cardinality({n \in run :
                     /\ multi_map[sequence[n]].first = h
                     /\ k.build_table[multi_map[sequence[n]].second] = k.probe_table[j]})

Contribution(j) ==
  IF Matches(j) = 0 /\ kernel.JoinKind = "LEFT_JOIN" THEN 1 ELSE Matches(j)

TotalContribution ==
  Sum([j \in DOMAIN kernel.probe_table |-> Contribution(j)], DOMAIN kernel.probe_table)

\* C26: compute_join_output_size visits every probe row exactly once over
\* the grid-stride loops of all threads and adds for it the number of
\* entries of its probe sequence with the row's remapped hash and an equal
\* row, or exactly 1 for an unmatched row of a LEFT_JOIN and 0 for one of
\* another join kind; *output_size ends as the sum over the probe rows.
C26_CountsEveryRowOnce ==
  IsProbe =>
    /\ ~visited.outside
    /\ \A j \in DOMAIN visited.rows :
         /\ visited.rows[j] <= 1
         /\ HasUnusedSlot => visited.counted[j] <= Contribution(j)
         /\ visited.rows[j] = 0 => visited.counted[j] = 0
    /\ ProbeDone =>
         /\ \A j \in DOMAIN visited.rows :
              visited.rows[j] = 1 /\ visited.counted[j] = Contribution(j)
         /\ output_size = TotalContribution

\* C27: build_hash_table visits every build row exactly once over all the
\* threads of the grid, inserts a row exactly when row_bitmask is null or
\* the bit of the row is set, and never inserts a row whose bit is unset.
C27_EveryRowOnce ==
  IsBuild =>
    /\ ~visited.outside
    /\ \A i \in DOMAIN visited.rows :
         /\ visited.rows[i] <= 1
         /\ visited.insertions[i] =
              (IF kernel.row_bitmask = NullBitmask \/ kernel.row_bitmask[i]
                 THEN visited.rows[i] ELSE 0)
    /\ BuildDone => \A i \in DOMAIN visited.rows : visited.rows[i] = 1

\* C28: in build_hash_table *error is 1 as soon as an insertion has returned
\* end(), in every interleaving of the threads, and holds its initial value
\* as long as every insertion has succeeded: 1 is the only value written.
C28_ErrorIsOneOrInitial ==
  IsBuild =>
    /\ visited.failed => error = 1
    /\ ~visited.failed => error = visited.error

\* Two threads have finished a build in which the map filled up: the error
\* word, initially 2, is 1.
C28_Witness ==
  /\ IsBuild /\ BuildDone
  /\ Cardinality(DOMAIN cuda_threads) = 2
  /\ visited.failed /\ visited.error = 2 /\ error = 1
  /\ ~visited.outside

\* C29: remap_sentinel_hash never returns the sentinel, returns a hash other
\* than the sentinel unchanged and the sentinel as hash - 1 in the unsigned
\* width of the hash; the kernels insert no pair under the unused key of the
\* map and search for no such key.
C29_NeverSentinel ==
  /\ \A hash \in Hashes, sentinel \in Hashes :
       /\ remap_sentinel_hash(hash, sentinel) \in Hashes \ {sentinel}
       /\ hash # sentinel => remap_sentinel_hash(hash, sentinel) = hash
       /\ hash = sentinel =>
            remap_sentinel_hash(hash, sentinel) = (IF hash = 0 THEN HashMax ELSE hash - 1)
  /\ kernel # <<>> =>
       /\ kernel.unused_key \notin visited.keys
       /\ \A s \in DOMAIN multi_map :
            multi_map[s].first = kernel.unused_key => multi_map[s].second = unused_element

\* The unused key is 0, and build row 0, whose hash is 0, sits in the map
\* under the largest hash value.
C29_Witness ==
  /\ IsBuild /\ kernel.unused_key = 0
  /\ kernel.build_table_num_rows > 0
  /\ row_hash(kernel.build_table[0]) = 0
  /\ \E s \in DOMAIN multi_map : multi_map[s] = [first |-> HashMax, second |-> 0]

\* C30: scan_agg_dispatch fails without dispatching a scan when the kind is
\* neither RANK nor DENSE_RANK and the input type is not numeric, compound
\* or fixed-point, when the kind is PRODUCT and the type is fixed-point, and
\* when the kind is none of SUM, MIN, MAX, PRODUCT, RANK and DENSE_RANK; RANK
\* and DENSE_RANK are dispatched for every input type.
C30_ScanRejects ==
  scan # <<>> /\ scan.called =>
    LET type == scan.input
        kind == scan.agg
        failed == scan.result.threw # "" /\ scan.result.dispatched = <<>>
    IN  /\ kind \notin {"RANK", "DENSE_RANK"}
           /\ ~(is_numeric(type) \/ is_compound(type) \/ is_fixed_point(type)) => failed
        /\ kind = "PRODUCT" /\ is_fixed_point(type) => failed
        /\ kind \notin {"SUM", "MIN", "MAX", "PRODUCT", "RANK", "DENSE_RANK"} => failed
        /\ kind \in {"RANK", "DENSE_RANK"} =>
             scan.result.threw = "" /\ scan.result.dispatched # <<>>

\* The product scan of a decimal column has been refused.
C30_Witness ==
  /\ scan # <<>> /\ scan.called
  /\ scan.agg = "PRODUCT" /\ scan.input = "DECIMAL64"
  /\ scan.result = Thrown("decimal32/64 cannot support product scan")

\* The step executed an operator to its end.
Executed == operator_index' = operator_index + 1

\* C31: an executed operator modifies one location.  With a COLUMN output
\* reference it makes one set_value call on the sink, at output_row_index
\* with its result, and every intermediate slot keeps its contents; with any
\* other output reference it overwrites intermediate slot data_index with
\* its result, and the sink and every other slot keep theirs.
C31_OneLocation ==
  [][Executed =>
       IF last'.output.reference_type = "COLUMN"
       THEN /\ output_object'.set_value_calls =
                 Append(Calls, [index |-> output_row_index, result |-> last'.result])
            /\ output_object'.kind = "column" =>
                 \A r \in Rows \ {output_row_index} :
                   /\ output_object'.data[r] = output_object.data[r]
                   /\ output_object'.valid[r] = output_object.valid[r]
            /\ evaluator'.thread_intermediate_storage = evaluator.thread_intermediate_storage
       ELSE /\ output_object' = output_object
            /\ evaluator'.thread_intermediate_storage =
                 [evaluator.thread_intermediate_storage
                    EXCEPT ![last'.output.data_index] = last'.result]]_vars

\* out = a; t0 = a + b; out = t0 - a has run: the sink was written twice and
\* slot 0 once, and slot 1 is as it was at entry.
C31_Witness ==
  /\ Done /\ evaluator.plan = PlanTwoWrites
  /\ output_object.kind = "column" /\ evaluator.has_nulls
  /\ Len(Calls) = 2
  /\ last_write[0].written /\ ~last_write[1].written
  /\ evaluator.thread_intermediate_storage[0] =
       Some(LeftData[left_row_index] + RightData[right_row_index])
  /\ evaluator.thread_intermediate_storage[1] = at_entry.thread_intermediate_storage[1]

\* The operators before operator k whose output reference is COLUMN.
ColumnWriters(k) ==
  {j \in 0 .. k - 1 : OutputRef(evaluator.plan, j).reference_type = "COLUMN"}

\* The sink holds the result at output_row_index.
SinkHolds(result) ==
  IF output_object.kind = "value" THEN output_object._obj = result
  ELSE IF result.has_value
  THEN /\ output_object.data[output_row_index] = result.value
       /\ evaluator.has_nulls => output_object.valid[output_row_index]
  ELSE ~output_object.valid[output_row_index]

\* C32: the evaluator does not enforce the single terminal write: for every
\* plan the sink receives one set_value call per executed operator whose
\* output reference is COLUMN, each at output_row_index, and holds the
\* result of the last of them; out = a; t0 = a + b; out = t0 - a leaves b.
C32_OneCallPerColumnOutput ==
  /\ Len(Calls) = Cardinality(ColumnWriters(operator_index))
  /\ \A n \in DOMAIN Calls : Calls[n].index = output_row_index
  /\ Calls # <<>> => SinkHolds(Calls[Len(Calls)].result)
  /\ Stepped /\ ~Aborted /\ last.output.reference_type = "COLUMN" =>
       Calls[Len(Calls)].result = last.result
  /\ Done /\ evaluator.plan = PlanTwoWrites /\ last.result.has_value =>
       SinkHolds(Some(RightData[right_row_index]))

\* Two operators of one evaluation have written different values to the
\* scalar sink, which holds the second.
C32_Witness ==
  /\ Done /\ evaluator.plan = PlanTwoWrites
  /\ output_object.kind = "value"
  /\ Len(Calls) = 2
  /\ Calls[1].result # Calls[2].result
  /\ output_object._obj = Some(RightData[right_row_index])

\* What intermediate slot s held before the latest operator.
SlotBefore(s) ==
  IF last.prior_write[s].written THEN last.prior_write[s].value
  ELSE at_entry.thread_intermediate_storage[s]

\* C33: reference kinds are not validated.  An input reference that is
\* neither COLUMN nor LITERAL is read from intermediate slot data_index, an
\* output reference that is not COLUMN, LITERAL included, is written to
\* intermediate slot data_index (the literals stay as they are), and no
\* assertion is raised for either.
C33_KindsNotValidated ==
  /\ Stepped =>
       /\ \A j \in DOMAIN last.inputs :
            last.input_refs[j].reference_type \notin {"COLUMN", "LITERAL"} =>
              /\ last.inputs[j] = SlotBefore(last.input_refs[j].data_index)
              /\ Read("intermediate", last.input_refs[j].data_index, 0, "element")
                   \in last.reads
              /\ last.asserts = <<>>
       /\ last.op # "NOP" /\ last.output.reference_type # "COLUMN" =>
            /\ last.asserts = <<>>
            /\ evaluator.thread_intermediate_storage[last.output.data_index] = last.result
  /\ evaluator.plan.literals = literals
  /\ evaluator.plan \in {PlanLiteralOutput, PlanUnknownKind} => ~Aborted

\* c = a + b; out = t0 has run: the sum written through the LITERAL
\* reference c was read back from slot 0 and is in the sink.
C33_Witness ==
  /\ Done /\ evaluator.plan = PlanLiteralOutput
  /\ ~evaluator.has_nulls
  /\ last.prior_write[0].written
  /\ last.inputs[1] = Some(LeftData[left_row_index] + RightData[right_row_index])
  /\ SinkHolds(last.inputs[1])
  /\ assertions = <<>>

\* The operator the next step executes is neither unary nor binary.
NextOpHasNoArity ==
  /\ operator_index < NumOperators(evaluator.plan)
  /\ Seq0(evaluator.plan.operators, operator_index) \notin UnaryOperators \cup BinaryOperators

\* C34: at an operator whose arity is neither 1 nor 2 evaluate raises the
\* assertion "Invalid operator arity.", leaves the cursor of the
\* operand-index stream where it is, and writes neither the sink nor the
\* intermediate storage.
C34_InvalidArity ==
  [][NextOpHasNoArity =>
       /\ assertions' = cudf_assert("Invalid operator arity.")
       /\ operator_source_index' = operator_source_index
       /\ output_object' = output_object
       /\ evaluator' = evaluator]_vars

\* t0 = a; NOP; out = t0 has stopped at NOP: the cursor is behind the two
\* entries of the first operator, slot 0 holds a and the sink is untouched.
C34_Witness ==
  /\ evaluator.plan = PlanNullary
  /\ assertions = cudf_assert("Invalid operator arity.")
  /\ last.op = "NOP"
  /\ executed = <<0>>
  /\ operator_source_index = 2
  /\ Calls = <<>>
  /\ output_object = at_entry.output_object
  /\ ~evaluator.has_nulls
  /\ evaluator.thread_intermediate_storage[0] = Some(LeftData[left_row_index])

\* C35: set_value<Element> on a value_expression_result<T> with Element
\* other than T raises the assertion "Output type does not match container
\* type." and leaves the stored value and its validity as they were.
C35_TypeMismatch ==
  (/\ last # NoCall
   /\ output_object.kind = "value"
   /\ last.Element # output_object.T)
  => /\ assertions = cudf_assert("Output type does not match container type.")
     /\ output_object._obj = last.before._obj
     /\ output_object.T = last.before.T

\* A container of INT32 holding a valid 1 was given a BOOL 2 of another
\* validity and still holds the 1.
C35_Witness ==
  /\ last # NoCall
  /\ output_object.kind = "value"
  /\ output_object.T = "INT32"
  /\ last.Element = "BOOL"
  /\ last.result = Some(2)
  /\ last.before._obj = Some(1)
  /\ output_object._obj = Some(1)
  /\ assertions # <<>>

\* C36: without nulls set_value on a mutable_column_expression_result
\* writes element index of the column's data only; the null mask is as it
\* was before the call.
C36_NoNullsKeepsMask ==
  (/\ last # NoCall
   /\ output_object.kind = "column"
   /\ ~evaluator.has_nulls)
  => /\ output_object.valid = last.before.valid
     /\ output_object.valid = at_entry.output_object.valid
     /\ output_object.data = [last.before.data EXCEPT ![last.index] = last.result.value]
     /\ assertions = <<>>

\* Two calls without nulls on a column whose mask has row 0 cleared and row
\* 1 set: both rows hold the values written and the mask is unchanged.
C36_Witness ==
  /\ output_object.kind = "column"
  /\ ~evaluator.has_nulls
  /\ Len(Calls) = 2
  /\ Calls[1].index = 0
  /\ Calls[2].index = 1
  /\ output_object.data = [r \in Rows |-> IF r = 0 THEN 1 ELSE IF r = 1 THEN 2 ELSE 0]
  /\ at_entry.output_object.valid = [r \in Rows |-> r = 1]
  /\ output_object.valid = [r \in Rows |-> r = 1]

\* The lanes of warp w are in the loop of probe_hash_table.
InLoop(w) ==
  \E t \in ActiveLanesOf(w) : cuda_threads[t].pc \in {"body", "sync", "final"}

\* The pairs of probe row j among those warp w added since its last flush.
Pending(w, j) ==
  Cardinality({i \in DOMAIN visited.pending[w] : visited.pending[w][i][1] = j})

\* C38: with output_cache_size >= warp_size, a lane adds at most one pair
\* to the cache of its warp in an iteration of the loop, every pair is
\* written below output_cache_size, the cache holds the pairs added since
\* the last flush in the order they were added, every pair added was flushed
\* or is still cached, and when the lanes are done none is left unflushed.
C38_CacheHoldsEveryPair ==
  (IsOutput /\ kernel.output_cache_size >= warp_size) =>
    /\ \A t \in DOMAIN cuda_threads : cuda_threads[t].pairs <= 1
    /\ ~visited.outside
    /\ \A w \in Warps(kernel) :
         /\ InLoop(w) =>
              /\ kernel.current_idx_shared[w] <= kernel.output_cache_size
              /\ Cached(kernel, w) = visited.pending[w]
              /\ (\A t \in ActiveLanesOf(w) : cuda_threads[t].pc = "body") =>
                   kernel.current_idx_shared[w] + warp_size <= kernel.output_cache_size
                     \/ kernel.current_idx_shared[w] = 0
         /\ (\A t \in LanesOf(w) : cuda_threads[t].pc = "done") => visited.pending[w] = <<>>
    /\ \A j \in DOMAIN visited.added :
         visited.added[j] <= capacity(multi_map) =>
           visited.added[j]
             = visited.flushed[j] + Sum([w \in Warps(kernel) |-> Pending(w, j)], Warps(kernel))

\* A cache of warp_size entries was flushed and is full again: both lanes of
\* a warp added a pair in one iteration, the second at the last entry.
C38_Witness ==
  /\ IsOutput
  /\ kernel.output_cache_size = warp_size
  /\ ~visited.outside
  /\ \E w \in Warps(kernel) :
       /\ kernel.current_idx_shared[w] = warp_size
       /\ Len(visited.pending[w]) = warp_size
       /\ \A t \in LanesOf(w) : cuda_threads[t].pc = "sync" /\ cuda_threads[t].pairs = 1
       /\ \E j \in DOMAIN visited.flushed : visited.flushed[j] > 0

\* The loop of probe_hash_table has ended in thread t, which has a probe row.
LoopEnded(t) ==
  /\ global_thread_index(kernel, t) < kernel.probe_table_num_rows
  /\ cuda_threads[t].pc \in {"final", "done"}

\* C37: on the same map and tables, when the loop of probe_hash_table has
\* ended for a probe row the lane has added as many pairs to the cache as
\* compute_join_output_size added to its counter on its visit of the row;
\* the pair with JoinNoneValue is added for the rows of a LEFT_JOIN without
\* a match and no others, and is then the only pair of the row.
C37_PairsAsCounted ==
  (IsOutput /\ visited.counted # <<>>) =>
    \A t \in DOMAIN cuda_threads :
      LoopEnded(t) =>
        LET j == cuda_threads[t].probe_row_index
        IN  /\ visited.rows[j] = 1
            /\ visited.added[j] = visited.counted[j]
            /\ j \in visited.nones
                 <=> kernel.JoinKind = "LEFT_JOIN" /\ ~cuda_threads[t].found_match
            /\ j \in visited.nones => visited.added[j] = 1

\* A LEFT_JOIN of three probe rows: one with two matches, one with one and
\* one with none, each with as many pairs as were counted.
C37_Witness ==
  /\ IsOutput
  /\ OutputDone
  /\ kernel.JoinKind = "LEFT_JOIN"
  /\ visited.counted # <<>>
  /\ \E j \in DOMAIN visited.added : visited.added[j] = 2 /\ visited.counted[j] = 2
  /\ \E j \in DOMAIN visited.added :
       visited.added[j] = 1 /\ visited.counted[j] = 1 /\ j \notin visited.nones
  /\ \E j \in DOMAIN visited.added :
       visited.added[j] = 1 /\ visited.counted[j] = 1 /\ j \in visited.nones

\* Thread t of compute_join_output_size is in the probing loop of a row.
Probing(t) ==
  /\ IsProbe
  /\ t \in DOMAIN cuda_threads
  /\ cuda_threads[t].pc = "while"

\* Thread t of probe_hash_table is in the loop of its warp.
Looping(t) ==
  /\ IsOutput
  /\ t \in DOMAIN cuda_threads
  /\ cuda_threads[t].pc \in {"body", "sync"}

\* A thread in its probing loop is at an entry of a map without an unused
\* slot.
Caught(t) ==
  /\ ~HasUnusedSlot
  /\ Probing(t) \/ Looping(t)
  /\ cuda_threads[t].running
  /\ cuda_threads[t].found # map_end(multi_map)

\* The lanes of warp w have met after the body and none is running.
NoneRunning(w) ==
  /\ IsOutput
  /\ w \in Warps(kernel)
  /\ ActiveLanesOf(w) # {}
  /\ \A t \in ActiveLanesOf(w) : cuda_threads[t].pc = "sync" /\ ~cuda_threads[t].running

\* Every thread of the kernel has returned.
Returned == \A t \in DOMAIN cuda_threads : cuda_threads[t].pc = "done"

\* C39: on a map with an unused slot the probing loops end, in
\* compute_join_output_size and in probe_hash_table, and the kernel
\* returns; in probe_hash_table a lane is in the body only while it is
\* running and the loop of a warp ends at the first __any_sync at which none
\* of its lanes is running; and a thread that has found an entry of a map
\* without an unused slot stays in its loop for ever.
C39_LoopEnds ==
  /\ HasUnusedSlot ~> Returned
  /\ [](\A t \in DOMAIN cuda_threads :
          (IsOutput /\ cuda_threads[t].pc = "body") => cuda_threads[t].running)
  /\ [][\A w \in AllWarps :
          (NoneRunning(w) /\ \E t \in ActiveLanesOf(w) : cuda_threads'[t] # cuda_threads[t])
            => \A t \in ActiveLanesOf(w) : cuda_threads'[t].pc = "final"]_vars
  /\ [][\A t \in AllThreads : Caught(t) => Caught(t)']_vars

\* A lane of probe_hash_table goes round a map without an unused slot and
\* has added more pairs than the map has slots, while the other lane of its
\* warp, not running, waits for it.
C39_Witness ==
  /\ IsOutput
  /\ ~HasUnusedSlot
  /\ \E t \in DOMAIN cuda_threads :
       /\ Caught(t)
       /\ visited.added[cuda_threads[t].probe_row_index] > capacity(multi_map)
       /\ \E u \in ActiveLanesOf(warp_id(t)) :
            /\ ~cuda_threads[u].running
            /\ cuda_threads[u].pc = "sync"

====
